---- MODULE Spec2Model ----
(***************************************************************************)
(* A model of the process-toolkit-schema automation tool of the           *)
(* TypeScript Toolkit (tools/process-toolkit-schema.ts and tools/utils.ts).*)
(*                                                                         *)
(* Strings that take part in path arithmetic are modelled as sequences of  *)
(* '/'-free segments: the namespace name "a" is <<"a">>, the name "a/b" is  *)
(* <<"a", "b">>, the path "../toolkit/a/README.md" is                       *)
(* <<"..", "toolkit", "a", "README.md">>.  Template-literal concatenation  *)
(* `${x}/${y}` is x \o y and String.split('/') is the sequence itself.     *)
(***************************************************************************)
EXTENDS Integers, Sequences, FiniteSets, TLC

VARIABLES
    mode,       \* which part of the program the behaviour exercises
    schema,     \* the parsed Toolkit Schema (ordered namespaces -> tools)
    disk,       \* the file system: path -> "dir" or the content of a file
    disk0,      \* the file system as it was at the start of the run
    options,    \* ScriptOptions: dryRun and the five action switches
    pc,         \* position of the main script
    changes,    \* the change ledger: ordered <<path, content>> pairs
    result,     \* outcome of the last call (verifySchema, recordChanges, writeFile)
    tempDirs,   \* utils.ts tempDirs: the prefixes a temporary directory exists for
    reported,   \* what the run printed as changes to be made
    trace       \* the calls the run has made, in order

vars == << mode, schema, disk, disk0, options, pc, changes, result, tempDirs, reported, trace >>

(***************************************************************************)
(* Bounds of the model.                                                    *)
(***************************************************************************)
MaxNamespaces == 2
MaxTools == 2
MaxDeps == 1
MaxDirectives == 2
MaxArgs == 2

(***************************************************************************)
(* Generic helpers.                                                        *)
(***************************************************************************)
Range(s) == { s[i] : i \in DOMAIN s }

SeqsUpTo(S, n) == UNION { [1..k -> S] : k \in 0..n }

Injective(s) == \A i, j \in DOMAIN s : s[i] = s[j] => i = j

RECURSIVE Flatten(_)
Flatten(ss) == IF ss = << >> THEN << >> ELSE Head(ss) \o Flatten(Tail(ss))

Min(S) == CHOOSE x \in S : \A y \in S : x <= y

(***************************************************************************)
(* Paths (utils.ts).                                                       *)
(***************************************************************************)
ROOT_PATH == << ".." >>
TOOLKIT_PATH == ROOT_PATH \o << "toolkit" >>

\* An entry of the file system is a directory or a file with its content.
Dir == [kind |-> "dir"]
File(content) == [kind |-> "file", content |-> content]

\* existsSync(path): true for any existing entry, directory or file.
existsSync(d, path) == path \in DOMAIN d

IsFile(d, path) == path \in DOMAIN d /\ d[path].kind = "file"
IsDir(d, path) == path \in DOMAIN d /\ d[path].kind = "dir"

(***************************************************************************)
(* JavaScript objects used as maps.                                        *)
(***************************************************************************)
\* Keys every plain object inherits from Object.prototype (representatives).
ObjectProtoKeys == { << "toString" >>, << "constructor" >> }

\* `key in obj` for a plain object whose own keys are `keys`: the operator
\* also answers true for inherited keys.
InOperator(key, keys) == key \in keys \/ key \in ObjectProtoKeys

\* The value `undefined` used as a property key is the string "undefined".
UndefinedKey == "undefined"

\* An absent (undefined) name-valued field.
Undefined == << >>

(***************************************************************************)
(* The Toolkit Schema (utils.ts, interface ToolkitSchema).  A JSON object  *)
(* keeps its keys in insertion order, so a schema is a sequence of         *)
(* namespaces with distinct names, each holding a sequence of tools with   *)
(* distinct names; a dependency is the string "namespace/tool".            *)
(***************************************************************************)
NamespaceNames == { << "a" >>, << "c" >>, << "a", "b" >> }
ToolNames == { << "b" >>, << "m" >> }
DependencyStrings ==
    { << "a", "b" >>,                  \* "a/b"
      << "a", "missing" >>,            \* "a/missing"
      << "a", "b", "x" >>,             \* "a/b/x"
      << "a" >>,                       \* "a"
      << "toString", "constructor" >>  \* "toString/constructor"
    }

\* The schemas of the model: at most MaxNamespaces namespaces, MaxTools tools
\* and MaxDeps dependencies in all.  A schema is assembled from the ordered
\* namespace names, the ordered tool names of each namespace and the list of
\* (tool position, dependency) pairs, tools being numbered in schema order.
InjectiveSeqs(S, n) == { s \in SeqsUpTo(S, n) : Injective(s) }

RECURSIVE SumLen(_)
SumLen(ss) == IF ss = << >> THEN 0 ELSE Len(Head(ss)) + SumLen(Tail(ss))

ToolLayouts(nsNames, toolNames) ==
    { tl \in [DOMAIN nsNames -> InjectiveSeqs(toolNames, MaxTools)] :
        SumLen(tl) <= MaxTools }

DependencyLists(numTools, depStrings) ==
    { l \in SeqsUpTo([pos : 1..numTools, dep : depStrings], MaxDeps) :
        \A n \in 1..(Len(l) - 1) : l[n].pos <= l[n + 1].pos }

SelectDeps(l, pos) ==
    LET picked == SelectSeq(l, LAMBDA e : e.pos = pos)
    IN  [n \in DOMAIN picked |-> picked[n].dep]

MakeSchema(nsNames, toolLayout, depList) ==
    [i \in DOMAIN nsNames |->
        [ name  |-> nsNames[i],
          tools |-> [j \in DOMAIN toolLayout[i] |->
                        [ name |-> toolLayout[i][j],
                          exports |-> << >>,
                          dependencies |->
                              SelectDeps(depList,
                                  SumLen(SubSeq(toolLayout, 1, i - 1)) + j) ]] ]]

\* s is a schema over the given names and dependency strings.
IsSchemaOver(s, namespaceNames, toolNames, depStrings) ==
    \E nsNames \in InjectiveSeqs(namespaceNames, MaxNamespaces) :
        \E toolLayout \in ToolLayouts(nsNames, toolNames) :
            \E depList \in DependencyLists(SumLen(toolLayout), depStrings) :
                s = MakeSchema(nsNames, toolLayout, depList)

IsSchema(s) == IsSchemaOver(s, NamespaceNames, ToolNames, DependencyStrings)

NamespaceKeys(s) == { s[i].name : i \in DOMAIN s }
ToolKeys(ns) == { ns.tools[j].name : j \in DOMAIN ns.tools }
Namespace(s, name) == s[CHOOSE i \in DOMAIN s : s[i].name = name]

\* `${namespaceName}/${toolName}`
FullToolName(s, i, j) == s[i].name \o s[i].tools[j].name

\* The directories verifySchema looks for.
NamespaceDir(s, i) == TOOLKIT_PATH \o s[i].name
ToolDir(s, i, j) == TOOLKIT_PATH \o FullToolName(s, i, j)
SchemaDirs(s) ==
    { NamespaceDir(s, i) : i \in DOMAIN s } \cup
    UNION { { ToolDir(s, i, j) : j \in DOMAIN s[i].tools } : i \in DOMAIN s }

(***************************************************************************)
(* SchemaValidationError (class and constructor).                          *)
(***************************************************************************)
\* JavaScript `!b` on a tri-state flag that is known to be a boolean.
NotFlag_Same(b) == b

NotFlag(b) == IF b = "true" THEN "false" ELSE "true"

\* The fields the constructor sets from its options.  An option that is not
\* given is absent from the record `opts`; a flag is "true", "false" or
\* "undefined", a name is a string or Undefined.
SchemaValidationError(message, opts) ==
    LET given(f) == f \in DOMAIN opts
        syn == given("schemaSyntaxError")
        dir == given("directoryValidationError")
    IN  [ class     |-> "SchemaValidationError",
          message   |-> message,
          namespace |-> IF given("namespace") THEN opts.namespace ELSE Undefined,
          tool      |-> IF given("tool") THEN opts.tool ELSE Undefined,
          schemaSyntaxError |->
              IF syn /\ dir THEN opts.schemaSyntaxError
              ELSE IF syn THEN opts.schemaSyntaxError
              ELSE IF dir THEN NotFlag(opts.directoryValidationError)
              ELSE "undefined",
          directoryValidationError |->
              IF syn /\ dir THEN opts.directoryValidationError
              ELSE IF syn THEN NotFlag(opts.schemaSyntaxError)
              ELSE IF dir THEN opts.directoryValidationError
              ELSE "undefined" ]

(***************************************************************************)
(* verifySchema.  The nested loops visit, in schema order, one step per    *)
(* namespace directory, per dependency of a tool and per tool directory;   *)
(* the first step that throws ends the validation.                         *)
(***************************************************************************)
\* dependency.split('/', 2): at most the first two segments; a missing
\* second segment is `undefined`, which `in` reads as the key "undefined".
SplitDependency(dependency) ==
    << dependency[1],
       IF Len(dependency) >= 2 THEN dependency[2] ELSE UndefinedKey >>

\* schema[segments[0]].tools ?? {} : the own keys of the tools object.  For a
\* key that is only inherited the value has no `tools`, which gives {}.
DependencyToolKeys(s, seg0) ==
    IF << seg0 >> \in NamespaceKeys(s)
    THEN ToolKeys(Namespace(s, << seg0 >>))
    ELSE { }

ToolSteps(s, i, j) ==
    [k \in DOMAIN s[i].tools[j].dependencies |->
        [kind |-> "dependency", ns |-> i, tool |-> j, dep |-> k]]
    \o << [kind |-> "toolDir", ns |-> i, tool |-> j, dep |-> 0] >>

NamespaceSteps(s, i) ==
    << [kind |-> "namespaceDir", ns |-> i, tool |-> 0, dep |-> 0] >>
    \o Flatten([j \in DOMAIN s[i].tools |-> ToolSteps(s, i, j)])

VerifySteps(s) == Flatten([i \in DOMAIN s |-> NamespaceSteps(s, i)])

UnknownNamespace(s, dependency) ==
    ~ InOperator(<< SplitDependency(dependency)[1] >>, NamespaceKeys(s))

UnknownTool(s, dependency) ==
    /\ ~ UnknownNamespace(s, dependency)
    /\ ~ InOperator(<< SplitDependency(dependency)[2] >>,
                    DependencyToolKeys(s, SplitDependency(dependency)[1]))

\* Does this step throw?
StepThrows(s, d, step) ==
    CASE step.kind = "namespaceDir" -> ~ existsSync(d, NamespaceDir(s, step.ns))
      [] step.kind = "toolDir" -> ~ existsSync(d, ToolDir(s, step.ns, step.tool))
      [] step.kind = "dependency" ->
            LET dependency == s[step.ns].tools[step.tool].dependencies[step.dep]
            IN  UnknownNamespace(s, dependency) \/ UnknownTool(s, dependency)

DependencyErrorOptions_NamingDependency(s, step) ==
    LET segments == SplitDependency(s[step.ns].tools[step.tool].dependencies[step.dep])
    IN  [namespace |-> << segments[1] >>, tool |-> << segments[2] >>,
         schemaSyntaxError |-> "true"]

\* The options of the error thrown for a dependency that does not resolve.
DependencyErrorOptions(s, step) ==
    [namespace |-> s[step.ns].name,
     tool |-> s[step.ns].tools[step.tool].name,
     schemaSyntaxError |-> "true"]

\* The error a throwing step throws.
StepError(s, step) ==
    CASE step.kind = "namespaceDir" ->
            SchemaValidationError(
                [kind |-> "MissingNamespace", namespace |-> s[step.ns].name,
                 tool |-> Undefined, dependent |-> Undefined],
                [namespace |-> s[step.ns].name,
                 directoryValidationError |-> "true"])
      [] step.kind = "toolDir" ->
            SchemaValidationError(
                [kind |-> "MissingTool", namespace |-> s[step.ns].name,
                 tool |-> s[step.ns].tools[step.tool].name, dependent |-> Undefined],
                [namespace |-> s[step.ns].name,
                 tool |-> s[step.ns].tools[step.tool].name,
                 directoryValidationError |-> "true"])
      [] step.kind = "dependency" ->
            LET dependency == s[step.ns].tools[step.tool].dependencies[step.dep]
                segments == SplitDependency(dependency)
            IN  SchemaValidationError(
                    IF UnknownNamespace(s, dependency)
                    THEN [kind |-> "UnknownNamespace", namespace |-> << segments[1] >>,
                          tool |-> Undefined,
                          dependent |-> FullToolName(s, step.ns, step.tool)]
                    ELSE [kind |-> "UnknownTool", namespace |-> << segments[1] >>,
                          tool |-> << segments[2] >>,
                          dependent |-> FullToolName(s, step.ns, step.tool)],
                    DependencyErrorOptions(s, step))

\* The existsSync probe a directory step makes.
StepProbe(s, step) ==
    CASE step.kind = "namespaceDir" -> << NamespaceDir(s, step.ns) >>
      [] step.kind = "toolDir" -> << ToolDir(s, step.ns, step.tool) >>
      [] OTHER -> << >>

NoError == [class |-> "none"]

\* verifySchema(schema, dryRun): whether it returned, the error it threw, the
\* steps it executed and the directory probes it made.
verifySchema(s, d) ==
    LET steps == VerifySteps(s)
        throwing == { n \in DOMAIN steps : StepThrows(s, d, steps[n]) }
        last == IF throwing = { } THEN Len(steps) ELSE Min(throwing)
    IN  [ ok     |-> throwing = { },
          error  |-> IF throwing = { } THEN NoError ELSE StepError(s, steps[last]),
          steps  |-> SubSeq(steps, 1, last),
          probes |-> Flatten([n \in 1..last |-> StepProbe(s, steps[n])]) ]

(***************************************************************************)
(* File contents.  A text file is its identity (the path it was first read *)
(* from), the named spans of text it holds (the bounded sections or fields *)
(* a generator rewrites, the declarations of a source file), the           *)
(* dependency directives it holds and the text spliced in their place.     *)
(***************************************************************************)
Content(base, sections, directives) ==
    [base |-> base, sections |-> sections, directives |-> directives,
     spliced |-> << >>]

\* The text under a heading: what the file held before the run (stale), or
\* the body a generator wrote.
StaleBody == << >>
Generated(body) == << body >>

\* String.replace(regex, callback) on a section delimited by its heading: the
\* callback runs, and the section changes, only if the heading is present.
ReplaceSection(content, section, body) ==
    IF section \in DOMAIN content.sections
    THEN [content EXCEPT !.sections[section] = Generated(body)]
    ELSE content

SetField_Patch(content, field, body) ==
    [content EXCEPT !.sections =
        (field :> Generated(IF field \in DOMAIN content.sections
                               /\ content.sections[field] # << >>
                            THEN content.sections[field][1] \o body
                            ELSE body)) @@ content.sections]

\* Assignment to a field of a parsed JSON or YAML document.
SetField(content, field, body) ==
    [content EXCEPT !.sections = (field :> Generated(body)) @@ content.sections]

\* obj[key] = value on an insertion-ordered object.
AssignKey(obj, key, value) ==
    IF \E n \in DOMAIN obj : obj[n].key = key
    THEN [n \in DOMAIN obj |->
            IF obj[n].key = key THEN [key |-> key, value |-> value] ELSE obj[n]]
    ELSE Append(obj, [key |-> key, value |-> value])

RECURSIVE AssignAll(_, _)
AssignAll(obj, entries) ==
    IF entries = << >> THEN obj
    ELSE AssignAll(AssignKey(obj, Head(entries).key, Head(entries).value), Tail(entries))

(***************************************************************************)
(* The change ledger: recordChanges.                                       *)
(***************************************************************************)
LedgerKeys(ch) == { ch[n].key : n \in DOMAIN ch }

ConflictError(file) == [class |-> "Error", kind |-> "Conflict", file |-> file]

recordChanges_Overwrite(ch, file, modifiedContents) ==
    [changes |-> AssignKey(ch, file, modifiedContents), error |-> NoError]

recordChanges_KeepFirst(ch, file, modifiedContents) ==
    IF InOperator(file, LedgerKeys(ch))
    THEN [changes |-> ch, error |-> NoError]
    ELSE [changes |-> AssignKey(ch, file, modifiedContents), error |-> NoError]

\* recordChanges(file, modifiedContents) on the ledger ch: the ledger after
\* the call and the error thrown, if any.
recordChanges(ch, file, modifiedContents) ==
    IF InOperator(file, LedgerKeys(ch))
    THEN [changes |-> ch, error |-> ConflictError(file)]
    ELSE [changes |-> AssignKey(ch, file, modifiedContents), error |-> NoError]

(***************************************************************************)
(* What an action does, in order: each operation reads a file, derives the *)
(* new content (or throws) and records it.  An action stops at the first   *)
(* operation that throws.                                                  *)
(***************************************************************************)
ReadError(file) == [class |-> "Error", kind |-> "ReadFailed", file |-> file]

Operation(read, dest, content, error) ==
    [read |-> read, dest |-> dest, content |-> content, error |-> error]

RecordCall(file) == [call |-> "recordChanges", file |-> file]
StageCall(name) == [call |-> name, file |-> << >>]
\* An action ended by throwing.
ThrowCall(name) == [call |-> "throw", file |-> << name >>]

RECURSIVE Perform(_, _, _, _)
Perform(ch, tr, d, ops) ==
    IF ops = << >> THEN [changes |-> ch, trace |-> tr, error |-> NoError]
    ELSE LET op == Head(ops)
         IN  IF ~ IsFile(d, op.read)
             THEN [changes |-> ch, trace |-> tr, error |-> ReadError(op.read)]
             ELSE IF op.error # NoError
             THEN [changes |-> ch, trace |-> tr, error |-> op.error]
             ELSE LET r == recordChanges(ch, op.dest, op.content)
                      tr2 == Append(tr, RecordCall(op.dest))
                  IN  IF r.error # NoError
                      THEN [changes |-> r.changes, trace |-> tr2, error |-> r.error]
                      ELSE Perform(r.changes, tr2, d, Tail(ops))

\* try { ... } catch (error) { throw new Error(`Failed to ...`, { cause }) }
Wrapped(action, res) ==
    IF res.error = NoError THEN res
    ELSE [res EXCEPT !.error = [class |-> "Error", kind |-> "ActionFailed",
                                action |-> action, cause |-> res.error]]

\* readFile(path) of a file that exists.
ReadContent(d, path) == IF IsFile(d, path) THEN d[path].content
                        ELSE Content(path, << >>, << >>)

(***************************************************************************)
(* updatePackageExports.                                                   *)
(***************************************************************************)
PACKAGE_JSON_PATH == ROOT_PATH \o << "package.json" >>

\* getDistFilePath(...segments)
getDistFilePath(segments) == << ".", "dist" >> \o segments \o << "index.js" >>

ToolExportEntries(s, i) ==
    [j \in DOMAIN s[i].tools |->
        [ key   |-> << "." >> \o s[i].name \o s[i].tools[j].name,
          value |-> getDistFilePath(s[i].name \o s[i].tools[j].name) ]]

PackageExportEntries(s) ==
    Flatten([i \in DOMAIN s |->
        << [key |-> << "." >> \o s[i].name, value |-> getDistFilePath(s[i].name)] >>
        \o ToolExportEntries(s, i)])

PackageExportsField(s) ==
    AssignAll(<< [key |-> << "." >>, value |-> << ".", "dist", "index.js" >>] >>,
              PackageExportEntries(s))

updatePackageExports(s, d, ch, tr) ==
    Wrapped("updatePackageExports",
        Perform(ch, tr, d,
            << Operation(PACKAGE_JSON_PATH, PACKAGE_JSON_PATH,
                   SetField(ReadContent(d, PACKAGE_JSON_PATH), "exports",
                            PackageExportsField(s)),
                   NoError) >>))

(***************************************************************************)
(* updateIssueTemplates.                                                   *)
(***************************************************************************)
ISSUE_TEMPLATE_DIRECTORY_PATH == ROOT_PATH \o << ".github", "ISSUE_TEMPLATE" >>
TOOLKIT_TOOL_ISSUE_REPORT_PATH ==
    ISSUE_TEMPLATE_DIRECTORY_PATH \o << "1-toolkit-tool-issue.yml" >>
REQUESTS_AND_SUGGESTIONS_PATH ==
    ISSUE_TEMPLATE_DIRECTORY_PATH \o << "3-requests-and-suggestions.yml" >>

REQUESTS_AND_SUGGESTIONS_BASIC_OPTIONS ==
    << << "Project Documentation" >>, << "API Documentation Wiki" >>,
       << "Project Layout, Organization, or Architecture" >>,
       << "Code Snippet Usage" >>,
       << "NPM Package Installation, Deployment, or Usage" >>,
       << "Contributing" >>, << "Other" >> >>

\* The option of an export: `${namespace}/${exportName}`, with "()" appended
\* for a function.
ExportOption(nsName, export) ==
    nsName \o export.name \o (IF export.type = "function" THEN << "()" >> ELSE << >>)

ToolOptions(s, i, j) ==
    << s[i].name \o s[i].tools[j].name >>
    \o [e \in DOMAIN s[i].tools[j].exports |->
            ExportOption(s[i].name, s[i].tools[j].exports[e])]

AllToolOptions(s) ==
    Flatten([i \in DOMAIN s |-> Flatten([j \in DOMAIN s[i].tools |-> ToolOptions(s, i, j)])])

RequestOptions(s) ==
    << << "Toolkit Namespaces" >> >> \o [i \in DOMAIN s |-> s[i].name]
    \o << << "Toolkit Tools" >> >> \o AllToolOptions(s)
    \o REQUESTS_AND_SUGGESTIONS_BASIC_OPTIONS

updateIssueTemplates(s, d, ch, tr) ==
    LET first == Wrapped("updateIssueTemplates",
                    Perform(ch, tr, d,
                        << Operation(TOOLKIT_TOOL_ISSUE_REPORT_PATH,
                               TOOLKIT_TOOL_ISSUE_REPORT_PATH,
                               SetField(ReadContent(d, TOOLKIT_TOOL_ISSUE_REPORT_PATH),
                                        "options", AllToolOptions(s)),
                               NoError) >>))
    IN  IF first.error # NoError THEN first
        ELSE Wrapped("updateIssueTemplates",
                Perform(first.changes, first.trace, d,
                    << Operation(REQUESTS_AND_SUGGESTIONS_PATH,
                           REQUESTS_AND_SUGGESTIONS_PATH,
                           SetField(ReadContent(d, REQUESTS_AND_SUGGESTIONS_PATH),
                                    "options", RequestOptions(s)),
                           NoError) >>))

(***************************************************************************)
(* updateReadmeFiles.                                                      *)
(***************************************************************************)
TOOLKIT_README_PATH == TOOLKIT_PATH \o << "README.md" >>
NamespaceReadme(s, i) == TOOLKIT_PATH \o s[i].name \o << "README.md" >>
ToolReadme(s, i, j) == TOOLKIT_PATH \o FullToolName(s, i, j) \o << "README.md" >>

\* The `dependencies` map: filled inside the replace callback of a namespace
\* readme, so only for namespaces whose readme has a "## Tool List" heading.
DependentEntries(s, d) ==
    Flatten([i \in DOMAIN s |->
        IF "Tool List" \in DOMAIN ReadContent(d, NamespaceReadme(s, i)).sections
        THEN Flatten([j \in DOMAIN s[i].tools |->
                [k \in DOMAIN s[i].tools[j].dependencies |->
                    [ key |-> s[i].tools[j].dependencies[k],
                      value |-> FullToolName(s, i, j) ]]])
        ELSE << >>])

Dependents(s, d, name) ==
    LET mine == SelectSeq(DependentEntries(s, d), LAMBDA e : e.key = name)
    IN  [n \in DOMAIN mine |-> mine[n].value]

DependencyKeys(s, d) == { e.key : e \in Range(DependentEntries(s, d)) }

\* The "Depends On" pattern ends at the "Dependents" item that follows it.
ReplaceDependsOn(content, body) ==
    IF "Dependents" \in DOMAIN content.sections
    THEN ReplaceSection(content, "Depends On", body)
    ELSE content

ToolReadmeContent(s, d, i, j) ==
    LET tool == s[i].tools[j]
        read == ReadContent(d, ToolReadme(s, i, j))
        c1 == IF Len(tool.dependencies) > 0
              THEN ReplaceDependsOn(read, tool.dependencies) ELSE read
    IN  IF InOperator(FullToolName(s, i, j), DependencyKeys(s, d))
        THEN ReplaceSection(c1, "Dependents", Dependents(s, d, FullToolName(s, i, j)))
        ELSE c1

HasToolReadme(s, d, i, j) ==
    \/ InOperator(FullToolName(s, i, j), DependencyKeys(s, d))
    \/ Len(s[i].tools[j].dependencies) > 0

ReadmeOperations(s, d) ==
    << Operation(TOOLKIT_README_PATH, TOOLKIT_README_PATH,
           ReplaceSection(ReadContent(d, TOOLKIT_README_PATH), "Namespaces",
                          [i \in DOMAIN s |-> s[i].name]),
           NoError) >>
    \o [i \in DOMAIN s |->
           Operation(NamespaceReadme(s, i), NamespaceReadme(s, i),
               ReplaceSection(ReadContent(d, NamespaceReadme(s, i)), "Tool List",
                              [j \in DOMAIN s[i].tools |-> s[i].tools[j].name]),
               NoError)]
    \o Flatten([i \in DOMAIN s |-> Flatten([j \in DOMAIN s[i].tools |->
           IF HasToolReadme(s, d, i, j)
           THEN << Operation(ToolReadme(s, i, j), ToolReadme(s, i, j),
                       ToolReadmeContent(s, d, i, j), NoError) >>
           ELSE << >>])])

updateReadmeFiles(s, d, ch, tr) ==
    Wrapped("updateReadmeFiles", Perform(ch, tr, d, ReadmeOperations(s, d)))

(***************************************************************************)
(* updateDependencyImports.                                                *)
(***************************************************************************)
ScriptTypes == << "ts", "js" >>

\* The file names a /src directory can hold, in directory order.
SourceFileNames == << "index.js", "index.ts", "main.js", "main.ts" >>

\* readdirSync(dir) filtered by isFile().
FilesIn(d, dir) ==
    SelectSeq(SourceFileNames, LAMBDA name : IsFile(d, dir \o << name >>))

DependencyImportError(kind, fileName, directive, resolved) ==
    [ class |-> "DependencyImportError", kind |-> kind, fileName |-> fileName,
      importMethod |-> IF directive.tag = "bundle" THEN "Bundled" ELSE "Inlined",
      dependency |-> directive.dependency,
      dependencyNamespace |-> IF resolved >= 1 THEN << directive.dependency[1] >> ELSE Undefined,
      dependencyTool |-> IF resolved >= 2 THEN << directive.dependency[2] >> ELSE Undefined,
      dependencyExport |-> IF resolved >= 3 THEN << directive.dependency[3] >> ELSE Undefined ]

ExportKeys(tool) == { tool.exports[e].name : e \in DOMAIN tool.exports }
ExportOf(tool, name) ==
    tool.exports[CHOOSE e \in DOMAIN tool.exports : tool.exports[e].name = name]
ToolOf(ns, name) == ns.tools[CHOOSE j \in DOMAIN ns.tools : ns.tools[j].name = name]

\* The candidate source files of a dependency, in priority order.
FilesToCheck(fileName, directive, scriptType) ==
    << fileName,
       (IF directive.tag = "bundle" THEN "bundled" ELSE "inlined") \o "-deps." \o scriptType,
       "index." \o scriptType >>

\* ToolkitExportType.
ToolkitExportTypes ==
    { "type", "interface", "class", "function", "constant", "variable", "global" }

\* A line of text: its leading spaces and what follows them; a line that is a
\* dependency directive comment also holds the directive.
Line(ws, body) == [ws |-> ws, body |-> body, directive |-> << >>]
DirectiveLine(ws, tag, dependency) ==
    [ws |-> ws, body |-> "@Dependency",
     directive |-> << [tag |-> tag, dependency |-> dependency] >>]
EmptyLine == Line(0, "")

\* A declaration of a source file: its keyword, whether a brace-delimited block
\* or an assignment follows the name, whether a documentation block precedes
\* it, and its lines (the documentation block included).
Declaration(keyword, form, documented, lines) ==
    [keyword |-> keyword, form |-> form, documented |-> documented, lines |-> lines]

\* codeRegex: the pattern built for the type of the export and the dialect.
\* The patterns of `constant` and `variable` end in `(?:(?:;|\n(?=\n))|$`, an
\* unterminated group: new RegExp throws a SyntaxError.  No case of the switch
\* is taken for a type that is none of ToolkitExportType: codeRegex is undefined.
CodeRegex(type, scriptType) ==
    LET pattern(keywords, form) ==
            [class |-> "RegExp", keywords |-> keywords, form |-> form]
    IN  CASE type = "type" ->
                IF scriptType = "ts" THEN pattern({ "type" }, "assignment")
                ELSE pattern({ "typedef" }, "docblock")
          [] type = "interface" ->
                IF scriptType = "ts" THEN pattern({ "interface", "type" }, "block")
                ELSE pattern({ "typedef" }, "docblock")
          [] type = "class" -> pattern({ "class" }, "block")
          [] type = "function" -> pattern({ "function", "const", "var", "let" }, "block")
          [] type \in { "constant", "variable" } ->
                [class |-> "SyntaxError", keywords |-> { }, form |-> ""]
          [] OTHER -> [class |-> "undefined", keywords |-> { }, form |-> ""]

\* depToolFileContents.match(codeRegex): the matched text, if any.  Every
\* pattern starts with a documentation block; match(undefined) matches the
\* empty string.
MatchCode(regex, source, name) ==
    IF regex.class = "undefined" THEN << << >> >>
    ELSE IF name \notin DOMAIN source.sections \/ source.sections[name] = << >>
    THEN << >>
    ELSE LET decl == source.sections[name][1]
         IN  IF /\ decl.documented
                /\ decl.keyword \in regex.keywords
                /\ decl.form = regex.form
             THEN << decl.lines >>
             ELSE << >>

IsImportable_Any(type) == TRUE

\* depExport.type != 'global': only non-global members are imported.
IsImportable(type) == type # "global"

Reindent_EveryLine(lines, indent) ==
    [n \in DOMAIN lines |-> [lines[n] EXCEPT !.ws = @ + indent]]

\* depExportContents[0].replaceAll(/^(?!$)/gm, indent): the indentation is
\* inserted at the start of every line that is not empty.
Reindent(lines, indent) ==
    [n \in DOMAIN lines |->
        IF lines[n].ws = 0 /\ lines[n].body = "" THEN lines[n]
        ELSE [lines[n] EXCEPT !.ws = @ + indent]]

INLINED_MARKER == "// Inlined TypeScript Toolkit Dependency"

ReplacementString_AlwaysSeparated(tag, indent, firstMatch, text) ==
    (IF tag = "bundle" THEN << EmptyLine >> ELSE << Line(indent, INLINED_MARKER) >>)
    \o Reindent(text, indent)

\* replacementString: a bundled dependency after the first replacement of the
\* file starts with '\n'; an inlined one starts with the marker comment.
ReplacementString(tag, indent, firstMatch, text) ==
    (IF tag = "bundle"
     THEN IF ~ firstMatch THEN << EmptyLine >> ELSE << >>
     ELSE << Line(indent, INLINED_MARKER) >>)
    \o Reindent(text, indent)

\* The replacement of one directive, or the error its resolution throws.
ImportDirective(s, d, fileName, scriptType, directive, firstMatch) ==
    LET segments == directive.dependency
        thrown(error) == [error |-> error, replacement |-> << >>, source |-> << >>]
        fail(kind, resolved) ==
            thrown(DependencyImportError(kind, fileName, directive, resolved))
    IN  IF Len(segments) # 3 THEN fail("InvalidDependency", 0)
        ELSE IF ~ InOperator(<< segments[1] >>, NamespaceKeys(s))
             THEN fail("UnknownNamespace", 1)
        ELSE IF ~ InOperator(<< segments[2] >>, DependencyToolKeys(s, segments[1]))
             THEN fail("UnknownTool", 2)
        ELSE IF << segments[2] >> \notin DependencyToolKeys(s, segments[1])
             THEN \* an inherited key: reading a property of `undefined` throws
                  thrown([class |-> "TypeError"])
        ELSE LET depTool == ToolOf(Namespace(s, << segments[1] >>), << segments[2] >>)
                 depToolDirPath == TOOLKIT_PATH \o << segments[1], segments[2], scriptType >>
                 candidates == SelectSeq(FilesToCheck(fileName, directive, scriptType),
                                   LAMBDA f : existsSync(d, depToolDirPath \o << f >>))
                 \* an inherited key is found by `in`; its `type` is undefined
                 type == IF << segments[3] >> \in ExportKeys(depTool)
                         THEN ExportOf(depTool, << segments[3] >>).type
                         ELSE "undefined"
                 codeRegex == CodeRegex(type, scriptType)
             IN  IF ~ InOperator(<< segments[3] >>, ExportKeys(depTool))
                 THEN fail("UnknownExport", 3)
                 ELSE IF ~ IsImportable(type) THEN fail("GlobalExport", 3)
                 ELSE IF codeRegex.class = "SyntaxError"
                 THEN thrown([class |-> "SyntaxError"])
                 ELSE IF ~ existsSync(d, depToolDirPath) THEN fail("MissingDirectory", 3)
                 ELSE IF candidates = << >> THEN fail("NoSourceFile", 3)
                 ELSE LET depToolFilePath == depToolDirPath \o << candidates[1] >>
                          depExportContents ==
                              MatchCode(codeRegex, ReadContent(d, depToolFilePath),
                                        segments[3])
                      IN  IF ~ IsFile(d, depToolFilePath)
                          THEN thrown(ReadError(depToolFilePath))
                          ELSE IF depExportContents = << >>
                          THEN [fail("NotFound", 3) EXCEPT !.source = depToolFilePath]
                          ELSE [ error |-> NoError,
                                 source |-> depToolFilePath,
                                 replacement |->
                                   << [ tag |-> directive.tag,
                                        indent |-> directive.indent,
                                        source |-> depToolFilePath,
                                        lines |-> ReplacementString(directive.tag,
                                                     directive.indent, firstMatch,
                                                     depExportContents[1]) ] >> ]

\* The matches of DEPENDENCY_IMPORT_REGEX in a text: its directive comments
\* and those inside the lines spliced into it.
ScanDirectives(content) ==
    content.directives
    \o Flatten([k \in DOMAIN content.spliced |->
          LET lines == content.spliced[k].lines
              found == SelectSeq(lines, LAMBDA line : line.directive # << >>)
          IN  [n \in DOMAIN found |->
                  [tag |-> found[n].directive[1].tag, indent |-> found[n].ws,
                   dependency |-> found[n].directive[1].dependency]]])

RECURSIVE ImportAll_SkipFailures(_, _, _, _, _, _)
ImportAll_SkipFailures(s, d, fileName, scriptType, directives, done) ==
    IF directives = << >> THEN [error |-> NoError, spliced |-> done]
    ELSE LET r == ImportDirective(s, d, fileName, scriptType, Head(directives), done = << >>)
         IN  ImportAll_SkipFailures(s, d, fileName, scriptType, Tail(directives),
                                    done \o r.replacement)

\* fileContents.replaceAll(DEPENDENCY_IMPORT_REGEX, callback): the directives
\* are replaced in order; the first one that fails throws.
RECURSIVE ImportAll(_, _, _, _, _, _)
ImportAll(s, d, fileName, scriptType, directives, done) ==
    IF directives = << >> THEN [error |-> NoError, spliced |-> done]
    ELSE LET r == ImportDirective(s, d, fileName, scriptType, Head(directives), done = << >>)
         IN  IF r.error # NoError THEN [error |-> r.error, spliced |-> done]
             ELSE ImportAll(s, d, fileName, scriptType, Tail(directives),
                            done \o r.replacement)

ImportOperation_RecordsScanned(s, d, scriptsPath, scriptType, fileName) ==
    LET read == ReadContent(d, scriptsPath \o << "src", fileName >>)
        r == ImportAll(s, d, fileName, scriptType, read.directives, << >>)
    IN  Operation(scriptsPath \o << "src", fileName >>, scriptsPath \o << "src", fileName >>,
            [read EXCEPT !.directives = << >>, !.spliced = r.spliced], r.error)

ImportOperation(s, d, scriptsPath, scriptType, fileName) ==
    LET read == ReadContent(d, scriptsPath \o << "src", fileName >>)
        r == ImportAll(s, d, fileName, scriptType, read.directives, << >>)
    IN  Operation(scriptsPath \o << "src", fileName >>, scriptsPath \o << fileName >>,
            [read EXCEPT !.directives = << >>, !.spliced = r.spliced], r.error)

ToolImportOperations(s, d, i, j) ==
    IF Len(s[i].tools[j].dependencies) > 0
    THEN Flatten([t \in DOMAIN ScriptTypes |->
            LET scriptsPath == TOOLKIT_PATH \o FullToolName(s, i, j) \o << ScriptTypes[t] >>
                names == FilesIn(d, scriptsPath \o << "src" >>)
            IN  IF existsSync(d, scriptsPath \o << "src" >>)
                THEN [n \in DOMAIN names |->
                        ImportOperation(s, d, scriptsPath, ScriptTypes[t], names[n])]
                ELSE << >>])
    ELSE << >>

ImportOperations(s, d) ==
    Flatten([i \in DOMAIN s |->
        Flatten([j \in DOMAIN s[i].tools |-> ToolImportOperations(s, d, i, j)])])

\* The tree as it would be if the pending ledger entries were already written.
Pending(d, ch) ==
    [p \in DOMAIN d \cup LedgerKeys(ch) |->
        IF p \in LedgerKeys(ch)
        THEN File(ch[CHOOSE n \in DOMAIN ch : ch[n].key = p].value)
        ELSE d[p]]

RECURSIVE ImportChained(_, _, _, _, _)
ImportChained(s, d, ch, tr, k) ==
    LET ops == ImportOperations(s, Pending(d, ch))
    IN  IF k > Len(ops) THEN [changes |-> ch, trace |-> tr, error |-> NoError]
        ELSE LET r == Perform(ch, tr, d, << ops[k] >>)
             IN  IF r.error # NoError THEN r
                 ELSE ImportChained(s, d, r.changes, r.trace, k + 1)

updateDependencyImports_ReadsPending(s, d, ch, tr) == ImportChained(s, d, ch, tr, 1)

updateDependencyImports(s, d, ch, tr) == Perform(ch, tr, d, ImportOperations(s, d))

(***************************************************************************)
(* writeFile and commitChanges (utils.ts).  Each file-system call of        *)
(* writeFile may fail; `outcome` names the call that fails, if any, and,    *)
(* for copyFileSync, what the failed copy left of the target.              *)
(***************************************************************************)
TEMP_PREFIX == "process-toolkit-schema"
BASE_TEMP_DIR == << "$TEMP", "typescript-toolkit" >>

\* mkdtempSync(join(BASE_TEMP_DIR, `${prefix}-`))
TempDirOf(prefix) == BASE_TEMP_DIR \o << prefix \o "-XXXXXX" >>

\* Path.basename(filepath)
Basename(path) == path[Len(path)]

\* The part of a new content a failed write or copy has written.
Partial(contents) == [partialOf |-> contents]

WriteOutcomes ==
    { "ok", "mkdtempFails", "writeTempFails", "copyFailsBeforeOpen",
      "copyFailsRemoved", "copyFailsPartial", "rmFails" }

WriteError(filepath, step) ==
    [class |-> "Error", kind |-> "WriteFailed", file |-> filepath, step |-> step]

\* writeFile(filepath, contents, { dryRun, tempDirPrefix }) with the given
\* outcome of its file-system calls: the file system, the tempDirs map, the
\* report printed and the error thrown.
writeFile(d, tmp, rep, filepath, contents, dryRun, prefix, outcome) ==
    LET tempFileDir == TempDirOf(prefix)
        newDir == prefix \notin tmp
        d1 == IF newDir
              THEN (BASE_TEMP_DIR :> Dir) @@ (tempFileDir :> Dir) @@ d
              ELSE d
        tempfileName == tempFileDir \o << Basename(filepath) >>
        staged == (tempfileName :> File(contents)) @@ d1
        copied == (filepath :> File(contents)) @@ staged
        without(fs, p) == [q \in DOMAIN fs \ { p } |-> fs[q]]
        res(fs, t, r, e) == [disk |-> fs, tempDirs |-> t, reported |-> r, error |-> e]
    IN  IF newDir /\ outcome = "mkdtempFails"
        THEN res((BASE_TEMP_DIR :> Dir) @@ d, tmp, rep, WriteError(filepath, "mkdtempSync"))
        ELSE IF dryRun
        THEN res(d1, tmp \cup { prefix },
                 Append(rep, [key |-> filepath, value |-> contents]), NoError)
        ELSE CASE outcome = "writeTempFails" ->
                    res((tempfileName :> File(Partial(contents))) @@ d1,
                        tmp \cup { prefix }, rep, WriteError(filepath, "writeFileSync"))
               [] outcome = "copyFailsBeforeOpen" ->
                    res(staged, tmp \cup { prefix }, rep, WriteError(filepath, "copyFileSync"))
               [] outcome = "copyFailsRemoved" ->
                    res(without(staged, filepath), tmp \cup { prefix }, rep,
                        WriteError(filepath, "copyFileSync"))
               [] outcome = "copyFailsPartial" ->
                    res((filepath :> File(Partial(contents))) @@ staged,
                        tmp \cup { prefix }, rep, WriteError(filepath, "copyFileSync"))
               [] outcome = "rmFails" ->
                    res(copied, tmp \cup { prefix }, rep, WriteError(filepath, "rmSync"))
               [] OTHER ->
                    res(without(copied, tempfileName), tmp \cup { prefix }, rep, NoError)

\* for (let file in changes) writeFile(...): the n-th write gets outcomes[n];
\* the first write that throws ends the loop.
RECURSIVE WriteAll(_, _, _, _, _, _, _)
WriteAll(d, tmp, rep, ch, n, dryRun, outcomes) ==
    IF n > Len(ch) THEN [disk |-> d, tempDirs |-> tmp, reported |-> rep, error |-> NoError]
    ELSE LET r == writeFile(d, tmp, rep, ch[n].key, ch[n].value, dryRun,
                            TEMP_PREFIX, outcomes[n])
         IN  IF r.error # NoError THEN r
             ELSE WriteAll(r.disk, r.tempDirs, r.reported, ch, n + 1, dryRun, outcomes)

commitChanges_AlwaysClears(d, tmp, rep, ch, dryRun, outcomes) ==
    LET r == WriteAll(d, tmp, rep, ch, 1, dryRun, outcomes)
    IN  [ disk |-> r.disk, tempDirs |-> r.tempDirs, reported |-> r.reported,
          error |-> r.error, changes |-> << >> ]

\* commitChanges(dryRun): the ledger is emptied only if the call returns and
\* dryRun is false.
commitChanges(d, tmp, rep, ch, dryRun, outcomes) ==
    LET r == WriteAll(d, tmp, rep, ch, 1, dryRun, outcomes)
    IN  [ disk |-> r.disk, tempDirs |-> r.tempDirs, reported |-> r.reported,
          error |-> r.error,
          changes |-> IF r.error = NoError /\ ~ dryRun THEN << >> ELSE ch ]

\* The outcomes the file system can give to the writes of n files: every
\* write succeeds, or one write fails in one of the ways above.
OutcomePlans(n) ==
    { [m \in 1..n |-> "ok"] } \cup
    { [m \in 1..n |-> IF m = f THEN o ELSE "ok"] :
        f \in 1..n, o \in WriteOutcomes \ { "ok" } }

(***************************************************************************)
(* Validation on its own: verifySchema applied to every schema and every   *)
(* layout of the /toolkit directory within the bounds.                     *)
(***************************************************************************)
DefaultOptions ==
    [ dryRun |-> FALSE, verifySchema |-> TRUE, updatePackageExports |-> TRUE,
      updateIssueTemplates |-> TRUE, updateReadmeFiles |-> TRUE,
      updateDependencyImports |-> TRUE ]

\* A path exists only if the directory that holds it exists.
Parent(path) == SubSeq(path, 1, Len(path) - 1)
ParentClosed(paths, within) ==
    \A p \in paths : Parent(p) \in within => Parent(p) \in paths

DirLayouts(s) ==
    { [p \in present |-> Dir] :
        present \in { q \in SUBSET SchemaDirs(s) : ParentClosed(q, SchemaDirs(s)) } }

InitVerify ==
    /\ mode = "verify"
    /\ IsSchema(schema)
    /\ disk \in DirLayouts(schema)
    /\ disk0 = disk
    /\ options = DefaultOptions
    /\ pc = "start"
    /\ changes = << >>
    /\ result = NoError
    /\ tempDirs = { }
    /\ reported = << >>
    /\ trace = << >>

VerifyCall ==
    /\ mode = "verify"
    /\ pc = "start"
    /\ result' = verifySchema(schema, disk)
    /\ pc' = IF result'.ok THEN "validated" ELSE "failed"
    /\ UNCHANGED << mode, schema, disk, disk0, options, changes, tempDirs, reported, trace >>

NextVerify == VerifyCall

SpecVerify == InitVerify /\ [][NextVerify]_vars

(***************************************************************************)
(* Claims about verifySchema (checked under SpecVerify).                   *)
(***************************************************************************)
Verified == mode = "verify" /\ pc \in { "validated", "failed" }

\* A dependency entry is exactly a `namespace/tool` pair naming a namespace
\* and a tool of the schema.
ResolvesInSchema(s, dependency) ==
    /\ Len(dependency) = 2
    /\ << dependency[1] >> \in NamespaceKeys(s)
    /\ << dependency[2] >> \in ToolKeys(Namespace(s, << dependency[1] >>))

SchemaConsistent(s, d) ==
    /\ \A i \in DOMAIN s : \A j \in DOMAIN s[i].tools :
          \A k \in DOMAIN s[i].tools[j].dependencies :
              ResolvesInSchema(s, s[i].tools[j].dependencies[k])
    /\ \A p \in SchemaDirs(s) : IsDir(d, p)

\* The position, among the steps of the validation, of the first problem in
\* schema order; 0 if there is none.
FirstProblem(steps, s, d) ==
    IF \A n \in DOMAIN steps : ~ StepThrows(s, d, steps[n]) THEN 0
    ELSE CHOOSE n \in DOMAIN steps :
            /\ StepThrows(s, d, steps[n])
            /\ \A m \in 1..(n - 1) : ~ StepThrows(s, d, steps[m])

\* The directory probes of the steps before the n-th, in order.
ProbesBefore(steps, s, n) == Flatten([m \in 1..(n - 1) |-> StepProbe(s, steps[m])])

\* C7: verifySchema succeeds exactly when every dependency entry is a
\* `namespace/tool` pair naming a namespace and a tool of the schema and every
\* namespace and every namespace/tool pair has its directory under /toolkit.
C7_SucceedsIffConsistent ==
    Verified => (result.ok <=> SchemaConsistent(schema, disk))

\* The half of C7 the code keeps: a consistent schema is accepted.
C7_ConsistentIsAccepted ==
    Verified /\ SchemaConsistent(schema, disk) => result.ok

C7_Witness ==
    /\ Verified
    /\ result.ok
    /\ SchemaConsistent(schema, disk)
    /\ \E i \in DOMAIN schema : \E j \in DOMAIN schema[i].tools :
          schema[i].tools[j].dependencies # << >>

\* The dependency "a/missing" declared by the tool of a step.
IsMissingDependency(s, step) ==
    /\ step.kind = "dependency"
    /\ s[step.ns].tools[step.tool].dependencies[step.dep] = << "a", "missing" >>

SyntaxClass(e) ==
    e.schemaSyntaxError = "true" /\ e.directoryValidationError = "false"
DirectoryClass(e) ==
    e.schemaSyntaxError = "false" /\ e.directoryValidationError = "true"

\* The only directory probes made are those of the steps before the n-th: none
\* for the tool of the n-th step, none for a later tool or namespace.
NoLaterProbes(steps, s, n) == result.probes = ProbesBefore(steps, s, n)

\* C8 as stated: when a tool's dependency on the nonexistent a/missing is the
\* first problem of the schema, verifySchema fails with a syntax-class error
\* whose namespace/tool fields name namespace a or tool missing, and no later
\* directory is probed.
C8_FieldsNameTheDependency ==
    Verified =>
        LET steps == VerifySteps(schema)
            n == FirstProblem(steps, schema, disk)
        IN  (n > 0 /\ IsMissingDependency(schema, steps[n]))
            => /\ ~ result.ok
               /\ SyntaxClass(result.error)
               /\ \/ result.error.namespace = << "a" >>
                  \/ result.error.tool = << "missing" >>
               /\ NoLaterProbes(steps, schema, n)

\* C8 amended: the error is syntax-class, its message names namespace a or
\* tool missing, its namespace/tool fields hold the dependent tool and its
\* namespace, and no directory is probed for that tool or a later one.
C8_FieldsNameTheDependent ==
    Verified =>
        LET steps == VerifySteps(schema)
            n == FirstProblem(steps, schema, disk)
        IN  (n > 0 /\ IsMissingDependency(schema, steps[n]))
            => LET step == steps[n]
               IN  /\ ~ result.ok
                   /\ SyntaxClass(result.error)
                   /\ result.error.namespace = schema[step.ns].name
                   /\ result.error.tool = schema[step.ns].tools[step.tool].name
                   /\ result.error.message.namespace = << "a" >>
                   /\ \/ result.error.message.kind = "UnknownNamespace"
                      \/ result.error.message.tool = << "missing" >>
                   /\ result.error.message.dependent =
                          FullToolName(schema, step.ns, step.tool)
                   /\ NoLaterProbes(steps, schema, n)

\* A tool outside namespace a declares a/missing, it is the first problem, and
\* another tool follows it in the schema.
C8_Witness ==
    /\ Verified
    /\ ~ result.ok
    /\ LET steps == VerifySteps(schema)
           n == FirstProblem(steps, schema, disk)
       IN  /\ n > 0
           /\ IsMissingDependency(schema, steps[n])
           /\ schema[steps[n].ns].name # << "a" >>
           /\ \E m \in (n + 2)..Len(steps) : steps[m].kind = "toolDir"

ACTIONS_MAP_ReadmesFirst ==
    << "verifySchema", "updateReadmeFiles", "updatePackageExports",
       "updateIssueTemplates", "updateDependencyImports" >>

ACTIONS_MAP ==
    << "verifySchema", "updatePackageExports", "updateIssueTemplates",
       "updateReadmeFiles", "updateDependencyImports" >>

AllOptions ==
    [ dryRun : BOOLEAN, verifySchema : BOOLEAN, updatePackageExports : BOOLEAN,
      updateIssueTemplates : BOOLEAN, updateReadmeFiles : BOOLEAN,
      updateDependencyImports : BOOLEAN ]

\* The names the schemas of a run are drawn from.
RunNamespaceNames == { << "a" >>, << "a", "b" >> }
RunToolNames == { << "b" >> }
RunDependencyStrings == { << "a", "b" >>, << "a", "missing" >> }

ReadmeSections ==
    [h \in { "Namespaces", "Tool List", "Depends On", "Dependents" } |-> StaleBody]

TextFile(path, sections, directives) == File(Content(path, sections, directives))

\* The dependency directive of a source file: `// @bundleDependency a.b.x`.
SourceDirective == [tag |-> "bundle", indent |-> 0, dependency |-> << "a", "b", "x" >>]

\* The /src tree of the tools that declare dependencies: absent, a file without
\* directives, or a file holding a directive.
SourceKinds == { "absent", "plain", "directive" }

SourceTree(s, i, j, kind) ==
    LET ts == ToolDir(s, i, j) \o << "ts" >>
        file == ts \o << "src", "index.ts" >>
    IN  IF kind = "absent" \/ s[i].tools[j].dependencies = << >>
        THEN << >>
        ELSE << [key |-> ts, value |-> Dir],
                [key |-> ts \o << "src" >>, value |-> Dir],
                [key |-> file,
                 value |-> TextFile(file, << >>,
                              IF kind = "directive" THEN << SourceDirective >> ELSE << >>)] >>

\* The project tree that matches the schema: every directory and readme the
\* schema names, the package configuration and the issue templates.
CompleteEntries(s, kind) ==
    << [key |-> TOOLKIT_PATH, value |-> Dir],
       [key |-> PACKAGE_JSON_PATH,
        value |-> TextFile(PACKAGE_JSON_PATH, [h \in { "exports" } |-> StaleBody], << >>)],
       [key |-> TOOLKIT_TOOL_ISSUE_REPORT_PATH,
        value |-> TextFile(TOOLKIT_TOOL_ISSUE_REPORT_PATH,
                           [h \in { "options" } |-> StaleBody], << >>)],
       [key |-> REQUESTS_AND_SUGGESTIONS_PATH,
        value |-> TextFile(REQUESTS_AND_SUGGESTIONS_PATH,
                           [h \in { "options" } |-> StaleBody], << >>)],
       [key |-> TOOLKIT_README_PATH,
        value |-> TextFile(TOOLKIT_README_PATH, ReadmeSections, << >>)] >>
    \o Flatten([i \in DOMAIN s |->
          << [key |-> NamespaceDir(s, i), value |-> Dir],
             [key |-> NamespaceReadme(s, i),
              value |-> TextFile(NamespaceReadme(s, i), ReadmeSections, << >>)] >>
          \o Flatten([j \in DOMAIN s[i].tools |->
                << [key |-> ToolDir(s, i, j), value |-> Dir],
                   [key |-> ToolReadme(s, i, j),
                    value |-> TextFile(ToolReadme(s, i, j), ReadmeSections, << >>)] >>
                \o SourceTree(s, i, j, kind)])])

CompleteDisk(s, kind) ==
    LET entries == CompleteEntries(s, kind)
        paths == { entries[n].key : n \in DOMAIN entries }
    IN  [p \in paths |->
            entries[CHOOSE n \in DOMAIN entries : entries[n].key = p].value]

IsPrefix(p, q) == Len(p) <= Len(q) /\ SubSeq(q, 1, Len(p)) = p

\* The tree without the entries of `gone` and everything below them.
Without(d, gone) ==
    [q \in { q \in DOMAIN d : \A p \in gone : ~ IsPrefix(p, q) } |-> d[q]]

\* The trees a run can start from: the complete tree, or the complete tree
\* with one entry (and what it holds) missing.
RunDisks(s) ==
    UNION { { CompleteDisk(s, kind) } \cup
            { Without(CompleteDisk(s, kind), { p }) :
                p \in DOMAIN CompleteDisk(s, kind) \ { TOOLKIT_PATH } } :
            kind \in SourceKinds }

Init ==
    /\ mode = "run"
    /\ IsSchemaOver(schema, RunNamespaceNames, RunToolNames, RunDependencyStrings)
    /\ disk \in RunDisks(schema)
    /\ disk0 = disk
    /\ options \in AllOptions
    /\ pc = "verifySchema"
    /\ changes = << >>
    /\ result = NoError
    /\ tempDirs = { }
    /\ reported = << >>
    /\ trace = << >>

\* for (const action in ACTIONS_MAP): the position after an action.
NextStage(stage) ==
    LET n == CHOOSE m \in DOMAIN ACTIONS_MAP : ACTIONS_MAP[m] = stage
    IN  IF n < Len(ACTIONS_MAP) THEN ACTIONS_MAP[n + 1] ELSE "commit"

AfterStage_Continue(stage, error) == NextStage(stage)

\* An action that throws ends the process; otherwise the loop goes on.
AfterStage(stage, error) ==
    IF error = NoError THEN NextStage(stage) ELSE "failed"

SkipStage(stage) ==
    /\ pc' = NextStage(stage)
    /\ UNCHANGED << mode, schema, disk, disk0, options, changes, result, tempDirs,
                    reported, trace >>

VerifySchemaStage ==
    /\ mode = "run"
    /\ pc = "verifySchema"
    /\ IF options.verifySchema
       THEN LET r == verifySchema(schema, disk)
            IN  /\ result' = r.error
                /\ trace' = IF r.error = NoError
                             THEN Append(trace, StageCall("verifySchema"))
                             ELSE trace \o << StageCall("verifySchema"),
                                              ThrowCall("verifySchema") >>
                /\ pc' = AfterStage("verifySchema", r.error)
                /\ UNCHANGED << mode, schema, disk, disk0, options, changes, tempDirs,
                                reported >>
       ELSE SkipStage("verifySchema")

\* An action that records its changes in the ledger.
RecordingStage(stage, r) ==
    /\ changes' = r.changes
    /\ trace' = IF r.error = NoError THEN r.trace
                 ELSE Append(r.trace, ThrowCall(stage))
    /\ result' = r.error
    /\ pc' = AfterStage(stage, r.error)
    /\ UNCHANGED << mode, schema, disk, disk0, options, tempDirs, reported >>

UpdatePackageExportsStage ==
    /\ mode = "run"
    /\ pc = "updatePackageExports"
    /\ IF options.updatePackageExports
       THEN RecordingStage("updatePackageExports",
                updatePackageExports(schema, disk, changes,
                    Append(trace, StageCall("updatePackageExports"))))
       ELSE SkipStage("updatePackageExports")

UpdateIssueTemplatesStage ==
    /\ mode = "run"
    /\ pc = "updateIssueTemplates"
    /\ IF options.updateIssueTemplates
       THEN RecordingStage("updateIssueTemplates",
                updateIssueTemplates(schema, disk, changes,
                    Append(trace, StageCall("updateIssueTemplates"))))
       ELSE SkipStage("updateIssueTemplates")

UpdateReadmeFilesStage ==
    /\ mode = "run"
    /\ pc = "updateReadmeFiles"
    /\ IF options.updateReadmeFiles
       THEN RecordingStage("updateReadmeFiles",
                updateReadmeFiles(schema, disk, changes,
                    Append(trace, StageCall("updateReadmeFiles"))))
       ELSE SkipStage("updateReadmeFiles")

UpdateDependencyImportsStage ==
    /\ mode = "run"
    /\ pc = "updateDependencyImports"
    /\ IF options.updateDependencyImports
       THEN RecordingStage("updateDependencyImports",
                updateDependencyImports(schema, disk, changes,
                    Append(trace, StageCall("updateDependencyImports"))))
       ELSE SkipStage("updateDependencyImports")

\* if (Object.keys(changes).length > 0) commitChanges(options.dryRun);
\* else console.log("No changes were made to any files.");
CommitStage ==
    /\ mode = "run"
    /\ pc = "commit"
    /\ IF Len(changes) > 0
       THEN \E outcomes \in OutcomePlans(Len(changes)) :
                LET r == commitChanges(disk, tempDirs, reported, changes,
                                       options.dryRun, outcomes)
                IN  /\ disk' = r.disk
                    /\ tempDirs' = r.tempDirs
                    /\ reported' = r.reported
                    /\ changes' = r.changes
                    /\ result' = r.error
                    /\ trace' = Append(trace, StageCall("commitChanges"))
                    /\ pc' = IF r.error = NoError THEN "done" ELSE "failed"
                    /\ UNCHANGED << mode, schema, disk0, options >>
       ELSE /\ pc' = "done"
            /\ UNCHANGED << mode, schema, disk, disk0, options, changes, result,
                            tempDirs, reported, trace >>

Next ==
    \/ VerifySchemaStage
    \/ UpdatePackageExportsStage
    \/ UpdateIssueTemplatesStage
    \/ UpdateReadmeFilesStage
    \/ UpdateDependencyImportsStage
    \/ CommitStage

Spec == Init /\ [][Next]_vars

(***************************************************************************)
(* The ledger and the commit in a run.                                     *)
(***************************************************************************)
Calls(call) == { n \in DOMAIN trace : trace[n] = call }
Called(call) == Calls(call) # { }

\* Some destination path was passed to recordChanges twice.
Conflicted ==
    \E m, n \in DOMAIN trace :
        m < n /\ trace[m].call = "recordChanges" /\ trace[n] = trace[m]

\* The destination files: everything outside the temporary directory.
DestView(d) == [p \in { q \in DOMAIN d : q[1] # "$TEMP" } |-> d[p]]

\* The file at path p is what it was in the tree d0.
SameAsIn(d, d0, p) ==
    /\ (p \in DOMAIN d) = (p \in DOMAIN d0)
    /\ p \in DOMAIN d => d[p] = d0[p]

Holds(d, p, contents) == p \in DOMAIN d /\ d[p] = File(contents)

\* C2: if an action passes the same destination path to recordChanges twice,
\* the run has failed, commitChanges has not been invoked and the files on
\* disk are what they were when the run started.
C2_ConflictFailsBeforeAnyWrite ==
    (mode = "run" /\ Conflicted) =>
        /\ pc = "failed"
        /\ result # NoError
        /\ ~ Called(StageCall("commitChanges"))
        /\ disk = disk0

C2_Witness ==
    /\ mode = "run"
    /\ Conflicted
    /\ pc = "failed"
    /\ Called(StageCall("updateReadmeFiles"))
    /\ Len(changes) > 0

\* C3 (as claimed): after a commit of a non-preview run has failed, either
\* every recorded path holds its recorded content or no destination file
\* differs from what it was before the commit.  Stated for the failure that
\* touches no target itself: staging a file in the temporary directory.
C3_CommitAllOrNothing ==
    ( /\ mode = "run"
      /\ ~ options.dryRun
      /\ Called(StageCall("commitChanges"))
      /\ pc = "failed"
      /\ result.step = "writeFileSync" ) =>
        \/ \A n \in DOMAIN changes : Holds(disk, changes[n].key, changes[n].value)
        \/ DestView(disk) = DestView(disk0)

C5_TargetNeverPartial ==
    ( /\ mode = "run"
      /\ ~ options.dryRun
      /\ pc = "failed"
      /\ Called(StageCall("commitChanges")) ) =>
        \A n \in DOMAIN changes :
            changes[n].key = result.file =>
                \/ SameAsIn(disk, disk0, result.file)
                \/ Holds(disk, result.file, changes[n].value)

Actions == { ACTIONS_MAP[n] : n \in DOMAIN ACTIONS_MAP }

\* C6: a destination file differs from what it was at the start of the run
\* only after commitChanges was invoked, every enabled action has run, none
\* has thrown, and the path was passed to recordChanges.
C6_WritesOnlyAfterAllActions ==
    mode = "run" =>
        \A p \in DOMAIN DestView(disk) \cup DOMAIN DestView(disk0) :
            ~ SameAsIn(disk, disk0, p) =>
                /\ Called(StageCall("commitChanges"))
                /\ \A a \in Actions :
                      /\ options[a] => Called(StageCall(a))
                      /\ ~ Called(ThrowCall(a))
                /\ Called(RecordCall(p))

C6_Witness ==
    /\ mode = "run"
    /\ pc = "done"
    /\ \A a \in Actions : options[a]
    /\ \E p \in DOMAIN DestView(disk) : ~ SameAsIn(disk, disk0, p)
    /\ Len(trace) > Len(ACTIONS_MAP) + 3

(***************************************************************************)
(* recordChanges on its own: calls with every path and content, on every   *)
(* ledger they build.  `result` holds the last call and what it threw.     *)
(***************************************************************************)
LedgerPaths ==
    { PACKAGE_JSON_PATH, TOOLKIT_README_PATH, TOOLKIT_TOOL_ISSUE_REPORT_PATH }
LedgerContents ==
    { Content(<< "first" >>, << >>, << >>), Content(<< "second" >>, << >>, << >>) }

LedgerCall(file, contents, before, error) ==
    [class |-> "call", file |-> file, contents |-> contents, before |-> before,
     error |-> error]

InitLedger ==
    /\ mode = "ledger"
    /\ schema = << >>
    /\ disk = << >>
    /\ disk0 = << >>
    /\ options = DefaultOptions
    /\ pc = "record"
    /\ changes = << >>
    /\ result = NoError
    /\ tempDirs = { }
    /\ reported = << >>
    /\ trace = << >>

RecordChangesCall ==
    /\ mode = "ledger"
    /\ \E file \in LedgerPaths, contents \in LedgerContents :
          LET r == recordChanges(changes, file, contents)
          IN  /\ changes' = r.changes
              /\ result' = LedgerCall(file, contents, changes, r.error)
    /\ UNCHANGED << mode, schema, disk, disk0, options, pc, tempDirs, reported, trace >>

NextLedger == RecordChangesCall

SpecLedger == InitLedger /\ [][NextLedger]_vars

ValueOf(ch, file) == ch[CHOOSE n \in DOMAIN ch : ch[n].key = file].value

\* C1: a call of recordChanges with a path that is already a key of the
\* ledger throws, whatever the content, and leaves the ledger as it was.
C1_DuplicateKeyFails ==
    (mode = "ledger" /\ result # NoError /\ result.file \in LedgerKeys(result.before)) =>
        /\ result.error = ConflictError(result.file)
        /\ changes = result.before

\* A conflicting call with the same content as the first one.
C1_Witness ==
    /\ mode = "ledger"
    /\ result # NoError
    /\ result.file \in LedgerKeys(result.before)
    /\ ValueOf(result.before, result.file) = result.contents
    /\ result.error # NoError
    /\ Len(changes) > 1

(***************************************************************************)
(* The script as tools/process-toolkit-schema.ts has it: no ledger.  Each  *)
(* action writes the file it derived with writeFileSync, or prints it in a *)
(* preview; verifySchema prints a SchemaValidationError in a preview        *)
(* instead of throwing it; the main script only counts the actions.        *)
(***************************************************************************)
\* catch (error) { if (dryRun && error instanceof SchemaValidationError)
\*                     console.error(error); else throw error; }
LegacyVerifySchema(s, d, dryRun) ==
    LET r == verifySchema(s, d)
    IN  IF dryRun /\ r.error.class = "SchemaValidationError"
        THEN [error |-> NoError, logged |-> r.error]
        ELSE [error |-> r.error, logged |-> NoError]

\* if (!dryRun) writeFileSync(dest, contents); else console.log(contents);
RECURSIVE LegacyPerform(_, _, _, _, _)
LegacyPerform(d, rep, tr, ops, dryRun) ==
    IF ops = << >> THEN [disk |-> d, reported |-> rep, trace |-> tr, error |-> NoError]
    ELSE LET op == Head(ops)
         IN  IF ~ IsFile(d, op.read)
             THEN [disk |-> d, reported |-> rep, trace |-> tr, error |-> ReadError(op.read)]
             ELSE IF op.error # NoError
             THEN [disk |-> d, reported |-> rep, trace |-> tr, error |-> op.error]
             ELSE IF dryRun
             THEN LegacyPerform(d, Append(rep, [key |-> op.dest, value |-> op.content]),
                                tr, Tail(ops), dryRun)
             ELSE LegacyPerform((op.dest :> File(op.content)) @@ d, rep,
                                Append(tr, [call |-> "writeFileSync", file |-> op.dest]),
                                Tail(ops), dryRun)

\* Every readme the action derives is written to TOOLKIT_README_PATH.
LegacyReadmeOperations(s, d) ==
    LET ops == ReadmeOperations(s, d)
    IN  [n \in DOMAIN ops |-> [ops[n] EXCEPT !.dest = TOOLKIT_README_PATH]]

LegacyOperations(action, s, d) ==
    CASE action = "updatePackageExports" ->
            << Operation(PACKAGE_JSON_PATH, PACKAGE_JSON_PATH,
                   SetField(ReadContent(d, PACKAGE_JSON_PATH), "exports",
                            PackageExportsField(s)),
                   NoError) >>
      [] action = "updateIssueTemplates" ->
            << Operation(TOOLKIT_TOOL_ISSUE_REPORT_PATH, TOOLKIT_TOOL_ISSUE_REPORT_PATH,
                   SetField(ReadContent(d, TOOLKIT_TOOL_ISSUE_REPORT_PATH),
                            "options", AllToolOptions(s)),
                   NoError),
               Operation(REQUESTS_AND_SUGGESTIONS_PATH, REQUESTS_AND_SUGGESTIONS_PATH,
                   SetField(ReadContent(d, REQUESTS_AND_SUGGESTIONS_PATH),
                            "options", RequestOptions(s)),
                   NoError) >>
      [] action = "updateReadmeFiles" -> LegacyReadmeOperations(s, d)
      [] action = "updateDependencyImports" -> ImportOperations(s, d)

InitLegacy ==
    /\ mode = "legacy"
    /\ IsSchemaOver(schema, RunNamespaceNames, RunToolNames, RunDependencyStrings)
    /\ disk \in RunDisks(schema)
    /\ disk0 = disk
    /\ options \in AllOptions
    /\ pc = "verifySchema"
    /\ changes = << >>
    /\ result = NoError
    /\ tempDirs = { }
    /\ reported = << >>
    /\ trace = << >>

\* for (const action in ACTIONS_MAP): there is no commit after the loop.
LegacyNextStage(stage) ==
    IF NextStage(stage) = "commit" THEN "done" ELSE NextStage(stage)

LegacyAfterStage(stage, error) ==
    IF error = NoError THEN LegacyNextStage(stage) ELSE "failed"

LegacySkipStage(stage) ==
    /\ pc' = LegacyNextStage(stage)
    /\ UNCHANGED << mode, schema, disk, disk0, options, changes, result, tempDirs,
                    reported, trace >>

LegacyVerifySchemaStage ==
    /\ mode = "legacy"
    /\ pc = "verifySchema"
    /\ IF options.verifySchema
       THEN LET r == LegacyVerifySchema(schema, disk, options.dryRun)
            IN  /\ result' = IF r.error = NoError THEN r.logged ELSE r.error
                /\ trace' = IF r.error = NoError
                             THEN Append(trace, StageCall("verifySchema"))
                             ELSE trace \o << StageCall("verifySchema"),
                                              ThrowCall("verifySchema") >>
                /\ pc' = LegacyAfterStage("verifySchema", r.error)
                /\ UNCHANGED << mode, schema, disk, disk0, options, changes, tempDirs,
                                reported >>
       ELSE LegacySkipStage("verifySchema")

LegacyWritingStage(stage) ==
    /\ IF options[stage]
       THEN LET r == LegacyPerform(disk, reported, Append(trace, StageCall(stage)),
                                   LegacyOperations(stage, schema, disk), options.dryRun)
            IN  /\ disk' = r.disk
                /\ reported' = r.reported
                /\ trace' = IF r.error = NoError THEN r.trace
                             ELSE Append(r.trace, ThrowCall(stage))
                /\ result' = r.error
                /\ pc' = LegacyAfterStage(stage, r.error)
                /\ UNCHANGED << mode, schema, disk0, options, changes, tempDirs >>
       ELSE LegacySkipStage(stage)

LegacyUpdatePackageExportsStage ==
    /\ mode = "legacy"
    /\ pc = "updatePackageExports"
    /\ LegacyWritingStage("updatePackageExports")

LegacyUpdateIssueTemplatesStage ==
    /\ mode = "legacy"
    /\ pc = "updateIssueTemplates"
    /\ LegacyWritingStage("updateIssueTemplates")

LegacyUpdateReadmeFilesStage ==
    /\ mode = "legacy"
    /\ pc = "updateReadmeFiles"
    /\ LegacyWritingStage("updateReadmeFiles")

LegacyUpdateDependencyImportsStage ==
    /\ mode = "legacy"
    /\ pc = "updateDependencyImports"
    /\ LegacyWritingStage("updateDependencyImports")


NextLegacy ==
    \/ LegacyVerifySchemaStage
    \/ LegacyUpdatePackageExportsStage
    \/ LegacyUpdateIssueTemplatesStage
    \/ LegacyUpdateReadmeFilesStage
    \/ LegacyUpdateDependencyImportsStage

SpecLegacy == InitLegacy /\ [][NextLegacy]_vars

\* verifySchema ran and the schema does not pass it.
ValidationFailed ==
    /\ Called(StageCall("verifySchema"))
    /\ ~ verifySchema(schema, disk0).ok

\* C10: after verifySchema has failed, in a normal run and in a preview, the
\* run has ended: no later action has run and nothing was recorded, reported
\* or written.
C10_ValidationFailureIsFatal ==
    (mode \in { "run", "legacy" } /\ ValidationFailed) =>
        /\ pc = "failed"
        /\ \A a \in Actions \ { "verifySchema" } : ~ Called(StageCall(a))
        /\ changes = << >>
        /\ reported = << >>
        /\ disk = disk0

(***************************************************************************)
(* The resolution of one dependency directive on its own: the callback of  *)
(* replaceAll applied to every directive, in both dialects, for an export  *)
(* of every type and every layout of the dependency's dialect directory.   *)
(***************************************************************************)
\* Namespace a holds the tool b, which exports x, and the tool m, which
\* depends on a/b.
ImportSchema(type) ==
    << [ name |-> << "a" >>,
         tools |-> << [ name |-> << "b" >>,
                        exports |-> << [name |-> << "x" >>, type |-> type] >>,
                        dependencies |-> << >> ],
                      [ name |-> << "m" >>,
                        exports |-> << >>,
                        dependencies |-> << << "a", "b" >> >> ] >> ] >>

\* The lines of a declaration of x: a documentation block, the head, a body
\* with an empty line and a line of spaces only, and the closing line.
DeclarationLines(keyword, documented, body) ==
    (IF documented THEN << Line(0, "/** doc */") >> ELSE << >>)
    \o << Line(0, keyword \o " x") >> \o body
    \o << EmptyLine, Line(2, ""), Line(0, "end") >>

PlainBody == << Line(4, "body") >>

CanonicalKeyword(type, scriptType) ==
    CASE type \in { "type", "interface" } /\ scriptType = "js" -> "typedef"
      [] type = "type" -> "type"
      [] type = "interface" -> "interface"
      [] type = "class" -> "class"
      [] type = "constant" -> "const"
      [] type = "variable" -> "var"
      [] OTHER -> "function"

CanonicalForm(type, scriptType) ==
    CASE type \in { "type", "interface" } /\ scriptType = "js" -> "docblock"
      [] type \in { "type", "constant", "variable" } -> "assignment"
      [] OTHER -> "block"

\* The declaration a source file gives x: the one the pattern of the export's
\* type is written for ("canonical"), the same without its documentation
\* block ("undocumented"), or a declaration with another keyword ("mismatch").
DeclarationOf(type, scriptType, kind, body) ==
    IF kind = "mismatch"
    THEN Declaration("enum", "block", TRUE, DeclarationLines("enum", TRUE, body))
    ELSE Declaration(CanonicalKeyword(type, scriptType), CanonicalForm(type, scriptType),
                     kind = "canonical",
                     DeclarationLines(CanonicalKeyword(type, scriptType),
                                      kind = "canonical", body))

CandidateNames(scriptType) ==
    << "main." \o scriptType, "bundled-deps." \o scriptType,
       "inlined-deps." \o scriptType, "index." \o scriptType >>

CandidateEntries(type, scriptType, kind, body, layout) ==
    LET dir == TOOLKIT_PATH \o << "a", "b", scriptType >>
        names == CandidateNames(scriptType)
    IN  << [key |-> dir, value |-> Dir] >>
        \o Flatten([n \in DOMAIN names |->
              IF layout[n] = "absent" THEN << >>
              ELSE << [key |-> dir \o << names[n] >>,
                       value |-> TextFile(dir \o << names[n] >>,
                           IF layout[n] = "declares"
                           THEN [h \in { "x" } |->
                                   << DeclarationOf(type, scriptType, kind, body) >>]
                           ELSE [h \in { "x" } |-> << >>],
                           << >>)] >>])

AsDisk(entries) ==
    [p \in { entries[n].key : n \in DOMAIN entries } |->
        entries[CHOOSE n \in DOMAIN entries : entries[n].key = p].value]

\* The tree of the dependency a/b: without its dialect directories, or with
\* both, each holding the candidate files of the layout.  A candidate is
\* absent, a file that does not declare x ("other"), or a file that does.
DependencyTrees(type, kind, body) ==
    { AsDisk(<< [key |-> TOOLKIT_PATH, value |-> Dir],
                [key |-> TOOLKIT_PATH \o << "a" >>, value |-> Dir],
                [key |-> TOOLKIT_PATH \o << "a", "b" >>, value |-> Dir] >>) }
    \cup
    { AsDisk(<< [key |-> TOOLKIT_PATH, value |-> Dir],
                [key |-> TOOLKIT_PATH \o << "a" >>, value |-> Dir],
                [key |-> TOOLKIT_PATH \o << "a", "b" >>, value |-> Dir] >>
             \o CandidateEntries(type, "ts", kind, body, layout)
             \o CandidateEntries(type, "js", kind, body, layout)) :
        layout \in [1..4 -> { "absent", "other", "declares" }] }

\* The directives of the call: both tags, two indentations, and dependency
\* strings that fail each check of the callback or pass them all.
ResolveDirectives ==
    [ tag : { "bundle", "inline" }, indent : { 0, 4 },
      dependency : { << "a", "b", "x" >>, << "a", "b", "y" >>, << "a", "z", "x" >>,
                     << "q", "b", "x" >>, << "a", "b" >>, << "a", "b", "toString" >>,
                     << "toString", "constructor", "x" >> } ]

InitResolve ==
    /\ mode = "resolve"
    /\ \E type \in ToolkitExportTypes, kind \in { "canonical", "undocumented", "mismatch" } :
          /\ schema = ImportSchema(type)
          /\ disk \in DependencyTrees(type, kind, PlainBody)
    /\ disk0 = disk
    /\ options = DefaultOptions
    /\ pc = "resolve"
    /\ changes = << >>
    /\ result = NoError
    /\ tempDirs = { }
    /\ reported = << >>
    /\ trace = << >>

\* The callback of replaceAll for one match in the file main.<dialect>.
ResolveCall ==
    /\ mode = "resolve"
    /\ pc = "resolve"
    /\ pc' = "done"
    /\ \E directive \in ResolveDirectives, t \in DOMAIN ScriptTypes,
          firstMatch \in BOOLEAN :
          LET fileName == "main." \o ScriptTypes[t]
          IN  result' = [ class |-> "resolve", directive |-> directive,
                          scriptType |-> ScriptTypes[t], fileName |-> fileName,
                          firstMatch |-> firstMatch,
                          outcome |-> ImportDirective(schema, disk, fileName,
                                          ScriptTypes[t], directive, firstMatch) ]
    /\ UNCHANGED << mode, schema, disk, disk0, options, changes, tempDirs,
                    reported, trace >>

NextResolve == ResolveCall

SpecResolve == InitResolve /\ [][NextResolve]_vars

(***************************************************************************)
(* Claims about the resolution of one directive.                           *)
(***************************************************************************)
Resolved == mode = "resolve" /\ result.class = "resolve"
ExportX == schema[1].tools[1].exports[1]
DependencyDir(scriptType) == TOOLKIT_PATH \o << "a", "b", scriptType >>
NamesX == Resolved /\ result.directive.dependency = << "a", "b", "x" >>
Succeeded == Resolved /\ result.outcome.error = NoError

\* C11: a directive whose three-segment path names an export of kind global
\* fails with a DependencyImportError, whatever the import mode, the dialect
\* and the dependency's source files, and no replacement text is produced.
C11_GlobalNeverImported ==
    (NamesX /\ ExportX.type = "global")
        => /\ result.outcome.error.class = "DependencyImportError"
           /\ result.outcome.replacement = << >>

\* A global export whose dialect directory holds a candidate file that
\* declares it has been asked for, and the request failed.
C11_Witness ==
    /\ NamesX /\ ExportX.type = "global"
    /\ \E f \in Range(FilesToCheck(result.fileName, result.directive, result.scriptType)) :
          LET path == DependencyDir(result.scriptType) \o << f >>
          IN  IsFile(disk, path) /\ disk[path].content.sections["x"] # << >>
    /\ result.outcome.error.class = "DependencyImportError"

ResolvedParts(error) ==
    (IF error.dependencyNamespace # Undefined THEN 1 ELSE 0)
    + (IF error.dependencyTool # Undefined THEN 1 ELSE 0)
    + (IF error.dependencyExport # Undefined THEN 1 ELSE 0)

\* C12: every failure to resolve a directive is a DependencyImportError that
\* carries the dependent file, the import mode and the raw dependency string;
\* a wrong segment count carries no resolved part, an unknown namespace only
\* the namespace, an unknown tool namespace and tool, and every later failure
\* namespace, tool and export.
C12_EveryFailureIsADependencyImportError ==
    (Resolved /\ result.outcome.error # NoError)
        => LET error == result.outcome.error
               segments == result.directive.dependency
           IN  /\ error.class = "DependencyImportError"
               /\ error.fileName = result.fileName
               /\ error.importMethod =
                     (IF result.directive.tag = "bundle" THEN "Bundled" ELSE "Inlined")
               /\ error.dependency = segments
               /\ ResolvedParts(error) =
                     (IF Len(segments) # 3 THEN 0
                      ELSE IF << segments[1] >> \notin NamespaceKeys(schema) THEN 1
                      ELSE IF << segments[2] >> \notin DependencyToolKeys(schema, segments[1])
                      THEN 2 ELSE 3)

(***************************************************************************)
(* updateDependencyImports on its own, followed by the commit: the tool    *)
(* a/m depends on a/b, whose index.ts declares the function x; the source  *)
(* files of a/m hold every short sequence of directives.  a/b, which has   *)
(* no dependencies, has a source file with a directive of its own.         *)
(***************************************************************************)
ImportDirectives ==
    [ tag : { "bundle", "inline" }, indent : { 4 },
      dependency : { << "a", "b", "x" >>, << "a", "b", "y" >> } ]

\* A body that itself holds a directive comment, as the body of assertBaseType
\* in toolkit/types/baseTypes/ts/src/inlined-deps.ts does.
DirectiveBody == << Line(4, "body"), DirectiveLine(4, "inline", << "a", "b", "x" >>) >>

ImportEntries(body, first, second) ==
    LET dep == TOOLKIT_PATH \o << "a", "b" >>
        src == TOOLKIT_PATH \o << "a", "m", "ts", "src" >>
    IN  << [key |-> TOOLKIT_PATH, value |-> Dir],
           [key |-> TOOLKIT_PATH \o << "a" >>, value |-> Dir],
           [key |-> dep, value |-> Dir],
           [key |-> dep \o << "ts" >>, value |-> Dir],
           [key |-> dep \o << "ts", "index.ts" >>,
            value |-> TextFile(dep \o << "ts", "index.ts" >>,
                         [h \in { "x" } |->
                            << DeclarationOf("function", "ts", "canonical", body) >>],
                         << >>)],
           [key |-> dep \o << "ts", "src" >>, value |-> Dir],
           [key |-> dep \o << "ts", "src", "index.ts" >>,
            value |-> TextFile(dep \o << "ts", "src", "index.ts" >>, << >>,
                         << [tag |-> "bundle", indent |-> 4,
                             dependency |-> << "a", "b", "x" >>] >>)],
           [key |-> TOOLKIT_PATH \o << "a", "m" >>, value |-> Dir],
           [key |-> TOOLKIT_PATH \o << "a", "m", "ts" >>, value |-> Dir],
           [key |-> src, value |-> Dir],
           [key |-> src \o << "index.ts" >>,
            value |-> TextFile(src \o << "index.ts" >>, << >>, first)] >>
        \o (IF second = << >> THEN << >>
            ELSE << [key |-> src \o << "main.ts" >>,
                     value |-> TextFile(src \o << "main.ts" >>, << >>, second[1])] >>)

\* The trees of the run: index.ts holds up to MaxDirectives directives;
\* main.ts is absent or holds at most one.
ImportDisks ==
    { AsDisk(ImportEntries(body, first, second)) :
        body \in { PlainBody, DirectiveBody },
        first \in SeqsUpTo(ImportDirectives, MaxDirectives),
        second \in { << >> } \cup { << directives >> :
                        directives \in SeqsUpTo(ImportDirectives, 1) } }

InitImport ==
    /\ mode = "run"
    /\ schema = ImportSchema("function")
    /\ disk \in ImportDisks
    /\ disk0 = disk
    /\ options \in { o \in AllOptions :
                        /\ o.updateDependencyImports
                        /\ ~ o.verifySchema /\ ~ o.updatePackageExports
                        /\ ~ o.updateIssueTemplates /\ ~ o.updateReadmeFiles }
    /\ pc = "updateDependencyImports"
    /\ changes = << >>
    /\ result = NoError
    /\ tempDirs = { }
    /\ reported = << >>
    /\ trace = << >>

NextImport == UpdateDependencyImportsStage \/ CommitStage

SpecImport == InitImport /\ [][NextImport]_vars

(***************************************************************************)
(* Claims about updateDependencyImports and the commit that follows it.    *)
(***************************************************************************)
ImportSrc == TOOLKIT_PATH \o << "a", "m", "ts", "src" >>
ImportDest(fileName) == TOOLKIT_PATH \o << "a", "m", "ts", fileName >>
Scanned == Range(FilesIn(disk0, ImportSrc))
DirectivesOf(fileName) == disk0[ImportSrc \o << fileName >>].content.directives
Resolves(fileName, directive) ==
    ImportDirective(schema, disk0, fileName, "ts", directive, TRUE).error = NoError
FailsToResolve(fileName) ==
    \E k \in DOMAIN DirectivesOf(fileName) : ~ Resolves(fileName, DirectivesOf(fileName)[k])
ImportsDone == mode = "run" /\ pc # "updateDependencyImports"

\* C13: if a directive of a scanned file fails to resolve, the file is never
\* recorded in the ledger, the run has failed, commitChanges is not invoked
\* and no file is written.
C13_FailingFileNeverRecorded ==
    \A f \in Scanned :
        (ImportsDone /\ FailsToResolve(f))
            => /\ ImportDest(f) \notin LedgerKeys(changes)
               /\ pc = "failed"
               /\ ~ Called(StageCall("commitChanges"))
               /\ disk = disk0

\* The first directive of index.ts resolves and its second fails: the run
\* has failed without recording the file.
C13_Witness ==
    /\ ImportsDone
    /\ Len(DirectivesOf("index.ts")) = 2
    /\ Resolves("index.ts", DirectivesOf("index.ts")[1])
    /\ ~ Resolves("index.ts", DirectivesOf("index.ts")[2])
    /\ pc = "failed"
    /\ result.class = "DependencyImportError"
    /\ ImportDest("index.ts") \notin LedgerKeys(changes)

\* C14: in preview mode, when a later stage fails, the changes recorded by the
\* stages that completed before the failure have been reported.
C14_PreviewReportsChangesBeforeAFailure ==
    (/\ mode = "run" /\ options.dryRun
     /\ pc = "failed" /\ ~ Called(StageCall("commitChanges")))
        => \A n \in DOMAIN changes : changes[n] \in Range(reported)

(***************************************************************************)
(* Claims about the choice of the source file and the extraction.          *)
(***************************************************************************)
\* The candidate source files of the call that exist, in priority order.
ExistingCandidates ==
    SelectSeq([n \in 1..3 |->
                  DependencyDir(result.scriptType)
                  \o << FilesToCheck(result.fileName, result.directive,
                                     result.scriptType)[n] >>],
              LAMBDA path : path \in DOMAIN disk)

\* C15: the source file of a dependency is the first that exists of the file
\* named like the file being rewritten, bundled-deps/inlined-deps.<dialect>
\* and index.<dialect>, whatever later candidates exist; without the dialect
\* directory or without any candidate the directive fails with a
\* DependencyImportError.
C15_FirstExistingCandidateIsUsed ==
    (NamesX /\ ExportX.type # "global")
        => IF ExistingCandidates = << >>
           THEN result.outcome.error.class = "DependencyImportError"
           ELSE result.outcome.source = ExistingCandidates[1]

\* The same for the exports whose pattern can be built.
C15_PriorityWhenPatternBuilds ==
    (NamesX /\ ExportX.type \notin { "global", "constant", "variable" })
        => IF ExistingCandidates = << >>
           THEN result.outcome.error.class = "DependencyImportError"
           ELSE result.outcome.source = ExistingCandidates[1]

\* The declaration of x in the chosen source file, if it holds one.
ChosenDeclaration ==
    IF ExistingCandidates = << >> THEN << >>
    ELSE disk[ExistingCandidates[1]].content.sections["x"]

\* C16: for an export of kind constant or variable whose chosen source file
\* holds a documentation block followed by an assignment declaring it,
\* resolution succeeds and the replacement is that documented assignment.
C16_DocumentedAssignmentIsExtracted ==
    (/\ NamesX /\ ExportX.type \in { "constant", "variable" }
     /\ ChosenDeclaration # << >>
     /\ ChosenDeclaration[1].documented
     /\ ChosenDeclaration[1].form = "assignment"
     /\ ChosenDeclaration[1].keyword \in { "const", "var" })
        => /\ result.outcome.error = NoError
           /\ result.outcome.replacement # << >>
           /\ result.outcome.replacement[1].lines =
                 ReplacementString(result.directive.tag, result.directive.indent,
                                   result.firstMatch, ChosenDeclaration[1].lines)

(***************************************************************************)
(* Claims about the text that replaces the directives of a file.           *)
(***************************************************************************)
\* The declaration of x in the source file of the dependency a/b.
DeclarationX ==
    disk0[TOOLKIT_PATH \o << "a", "b", "ts", "index.ts" >>].content.sections["x"][1]

\* The replacements recorded for the n-th file of the ledger.
Spliced(n) == changes[n].value.spliced

\* C17: in one rewritten file, a bundle-mode replacement starts with one
\* inserted blank line exactly when it is not the first replacement of the
\* file; an inline-mode replacement starts with the indented marker comment
\* and with no inserted blank line.  The re-indented declaration follows.
C17_SeparatorAndMarker ==
    mode = "run" =>
        \A n \in DOMAIN changes : \A k \in DOMAIN Spliced(n) :
            LET r == Spliced(n)[k]
                text == Reindent(DeclarationX.lines, r.indent)
            IN  r.lines =
                    (IF r.tag = "inline" THEN << Line(r.indent, INLINED_MARKER) >>
                     ELSE IF k > 1 THEN << EmptyLine >> ELSE << >>) \o text

\* A recorded file whose first replacement is bundled without a separator
\* and whose second is bundled after one.
C17_Witness ==
    /\ mode = "run"
    /\ \E n \in DOMAIN changes :
          /\ Len(Spliced(n)) = 2
          /\ Spliced(n)[1].tag = "bundle" /\ Spliced(n)[2].tag = "bundle"
          /\ Spliced(n)[1].lines[1] # EmptyLine
          /\ Spliced(n)[2].lines[1] = EmptyLine

\* The lines of a successful replacement after its separator or marker.
ReplacedText ==
    LET lines == result.outcome.replacement[1].lines
        text == ChosenDeclaration[1].lines
    IN  SubSeq(lines, Len(lines) - Len(text) + 1, Len(lines))

ExtractedX == NamesX /\ Succeeded /\ ChosenDeclaration # << >>

\* C18: the replacement is the extracted declaration, line by line and in
\* order, in which every line that is not empty starts with the directive's
\* indentation followed by the line as it was, and every empty line is left
\* empty.  (A line of spaces only is not empty: it gets the indentation.)
C18_NonEmptyLinesAreIndented ==
    ExtractedX =>
        LET text == ChosenDeclaration[1].lines
            indent == result.directive.indent
        IN  /\ Len(result.outcome.replacement[1].lines) \in { Len(text), Len(text) + 1 }
            /\ \A n \in DOMAIN text :
                  IF text[n] = EmptyLine THEN ReplacedText[n] = EmptyLine
                  ELSE /\ ReplacedText[n].ws = indent + text[n].ws
                       /\ ReplacedText[n].body = text[n].body

\* A declaration with an empty line and a line of spaces has been extracted
\* for a directive indented by four spaces.
C18_Witness ==
    /\ ExtractedX
    /\ result.directive.indent = 4
    /\ \E n \in DOMAIN ReplacedText :
          ChosenDeclaration[1].lines[n] = EmptyLine /\ ReplacedText[n] = EmptyLine
    /\ \E n \in DOMAIN ReplacedText :
          ChosenDeclaration[1].lines[n] = Line(2, "") /\ ReplacedText[n] = Line(6, "")

\* C19: a scanned source file without a directive is left untouched: no
\* change is recorded for its destination and the destination is not written.
C19_FileWithoutDirectiveUntouched ==
    \A f \in Scanned :
        (mode = "run" /\ DirectivesOf(f) = << >>)
            => /\ ImportDest(f) \notin LedgerKeys(changes)
               /\ ~ Called(RecordCall(ImportDest(f)))
               /\ SameAsIn(disk, disk0, ImportDest(f))

\* C20: re-scanning a rewritten file finds no directive for a dependency that
\* was bundled or inlined into it.
C20_NoDirectiveRemains ==
    mode = "run" =>
        \A n \in DOMAIN changes :
            LET f == changes[n].key[Len(changes[n].key)]
                replaced == { DirectivesOf(f)[k].dependency : k \in DOMAIN DirectivesOf(f) }
                remaining == ScanDirectives(changes[n].value)
            IN  \A k \in DOMAIN remaining : remaining[k].dependency \notin replaced

(***************************************************************************)
(* updatePackageExports on its own: every schema, and a package            *)
(* configuration with or without a previous `exports` mapping.             *)
(***************************************************************************)
Entry(key, value) == [key |-> key, value |-> value]

\* The `exports` mappings package.json can hold before the run: none, an
\* empty one, or one from a previous shape of the schema.
PreviousExports ==
    { << >>,
      << << >> >>,
      << << Entry(<< "." >>, << ".", "dist", "index.js" >>),
            Entry(<< ".", "old" >>, getDistFilePath(<< "old" >>)),
            Entry(<< ".", "a" >>, << ".", "lib", "a.js" >>) >> >> }

\* package.json: its name, its scripts and its previous exports, in either
\* order of the fields.
PackageConfigs ==
    { TextFile(PACKAGE_JSON_PATH,
               IF previous = << >>
               THEN [h \in { "name", "scripts" } |-> << << Entry(<< h >>, << h >>) >> >>]
               ELSE [h \in { "name", "scripts", "exports" } |->
                       IF h = "exports" THEN previous
                       ELSE << << Entry(<< h >>, << h >>) >> >>],
               << >>) : previous \in PreviousExports }

InitExports ==
    /\ mode = "run"
    /\ IsSchema(schema)
    /\ \E config \in PackageConfigs : disk = (PACKAGE_JSON_PATH :> config)
    /\ disk0 = disk
    /\ options \in { o \in AllOptions :
                        /\ o.updatePackageExports
                        /\ ~ o.verifySchema /\ ~ o.updateIssueTemplates
                        /\ ~ o.updateReadmeFiles /\ ~ o.updateDependencyImports }
    /\ pc = "updatePackageExports"
    /\ changes = << >>
    /\ result = NoError
    /\ tempDirs = { }
    /\ reported = << >>
    /\ trace = << >>

NextExports == UpdatePackageExportsStage

SpecExports == InitExports /\ [][NextExports]_vars

\* The package configuration recorded in the ledger.
RecordedConfig ==
    changes[CHOOSE n \in DOMAIN changes : changes[n].key = PACKAGE_JSON_PATH].value
ExportsRecorded ==
    /\ mode = "run" /\ pc # "updatePackageExports"
    /\ PACKAGE_JSON_PATH \in LedgerKeys(changes)

\* The entries the schema asks for.
SchemaExports ==
    { Entry(<< "." >>, << ".", "dist", "index.js" >>) }
    \cup { Entry(<< "." >> \o schema[i].name,
                 << ".", "dist" >> \o schema[i].name \o << "index.js" >>) :
             i \in DOMAIN schema }
    \cup UNION { { Entry(<< "." >> \o schema[i].name \o schema[i].tools[j].name,
                         << ".", "dist" >> \o schema[i].name \o schema[i].tools[j].name
                         \o << "index.js" >>) : j \in DOMAIN schema[i].tools } :
                 i \in DOMAIN schema }

\* C21: the recorded package configuration has an `exports` mapping that
\* consists of exactly the root entry, one entry per namespace and one per
\* tool, each mapped to its ./dist/.../index.js target; no previous entry
\* survives unless the schema regenerates it, and every other field of the
\* configuration is what it was.
C21_ExportsRebuilt ==
    ExportsRecorded =>
        LET old == disk0[PACKAGE_JSON_PATH].content
            new == RecordedConfig
            exports == new.sections["exports"][1]
        IN  /\ Range(exports) = SchemaExports
            /\ \A m, n \in DOMAIN exports : exports[m].key = exports[n].key => m = n
            /\ DOMAIN new.sections = DOMAIN old.sections \cup { "exports" }
            /\ \A h \in DOMAIN old.sections \ { "exports" } :
                  new.sections[h] = old.sections[h]

\* A configuration whose previous mapping held an entry the schema no longer
\* has and an entry with another target has been recorded for a schema with a
\* namespace and a tool.
C21_Witness ==
    /\ ExportsRecorded
    /\ "exports" \in DOMAIN disk0[PACKAGE_JSON_PATH].content.sections
    /\ Len(disk0[PACKAGE_JSON_PATH].content.sections["exports"][1]) = 3
    /\ \E i \in DOMAIN schema : schema[i].name = << "a" >> /\ Len(schema[i].tools) > 0
    /\ Entry(<< ".", "old" >>, getDistFilePath(<< "old" >>))
          \notin Range(RecordedConfig.sections["exports"][1])

(***************************************************************************)
(* updateReadmeFiles on its own: the root and namespace readmes may lack   *)
(* the heading their pattern looks for.                                    *)
(***************************************************************************)
ReadmeNamespaceNames == { << "a" >>, << "c" >> }
ReadmeToolNames == { << "b" >>, << "m" >> }
ReadmeDependencyStrings == { << "a", "b" >>, << "c", "m" >> }

\* The tree of the schema in which the readmes of `bare` have no heading.
ReadmeDisk(s, bare) ==
    LET d == CompleteDisk(s, "absent")
    IN  [p \in DOMAIN d |->
            IF p \in bare THEN TextFile(p, [h \in { } |-> StaleBody], << >>) ELSE d[p]]

InitReadme ==
    /\ mode = "run"
    /\ IsSchemaOver(schema, ReadmeNamespaceNames, ReadmeToolNames, ReadmeDependencyStrings)
    /\ \E bare \in SUBSET ({ TOOLKIT_README_PATH }
                            \cup { NamespaceReadme(schema, i) : i \in DOMAIN schema }) :
          disk = ReadmeDisk(schema, bare)
    /\ disk0 = disk
    /\ options \in { o \in AllOptions :
                        /\ o.updateReadmeFiles
                        /\ ~ o.verifySchema /\ ~ o.updatePackageExports
                        /\ ~ o.updateIssueTemplates /\ ~ o.updateDependencyImports }
    /\ pc = "updateReadmeFiles"
    /\ changes = << >>
    /\ result = NoError
    /\ tempDirs = { }
    /\ reported = << >>
    /\ trace = << >>

NextReadme == UpdateReadmeFilesStage

SpecReadme == InitReadme /\ [][NextReadme]_vars

ReadmesDone == mode = "run" /\ pc # "updateReadmeFiles" /\ result = NoError
Recorded(path) == changes[CHOOSE n \in DOMAIN changes : changes[n].key = path].value

\* The tools whose dependencies contain `name`, in schema order.
DeclaredDependents(name) ==
    Flatten([i \in DOMAIN schema |-> Flatten([j \in DOMAIN schema[i].tools |->
        IF name \in Range(schema[i].tools[j].dependencies)
        THEN << FullToolName(schema, i, j) >> ELSE << >>])])

DependentsListed(i, j) ==
    LET path == ToolReadme(schema, i, j)
    IN  DeclaredDependents(FullToolName(schema, i, j)) # << >>
            => /\ path \in LedgerKeys(changes)
               /\ Recorded(path).sections["Dependents"] =
                     Generated(DeclaredDependents(FullToolName(schema, i, j)))

DependsOnListed(i, j) ==
    LET path == ToolReadme(schema, i, j)
    IN  schema[i].tools[j].dependencies # << >>
            => /\ path \in LedgerKeys(changes)
               /\ Recorded(path).sections["Depends On"] =
                     Generated(schema[i].tools[j].dependencies)

\* C22: for every tool that some tool declares as a dependency, the change
\* recorded for its readme lists in the dependents section exactly the tools
\* whose dependencies contain it, whatever the root and namespace readmes
\* hold; for every tool with dependencies the depends-on section lists them
\* in order.
C22_DependentsInverted ==
    ReadmesDone =>
        \A i \in DOMAIN schema : \A j \in DOMAIN schema[i].tools :
            DependentsListed(i, j) /\ DependsOnListed(i, j)

\* The same when every namespace readme has its "## Tool List" heading.
C22_DependentsWhenToolListsPresent ==
    (/\ ReadmesDone
     /\ \A i \in DOMAIN schema :
           "Tool List" \in DOMAIN disk0[NamespaceReadme(schema, i)].content.sections)
        => \A i \in DOMAIN schema : \A j \in DOMAIN schema[i].tools :
              DependentsListed(i, j) /\ DependsOnListed(i, j)

(***************************************************************************)
(* The command line of the script.  An argument is a sequence of           *)
(* characters, so that toLowerCase and the pattern of isSkipArg are        *)
(* computed, not assumed.                                                  *)
(***************************************************************************)
LowerCaseLetters == << "a", "b", "c", "d", "e", "f", "g", "h", "i", "j", "k", "l", "m", "n", "o", "p", "q", "r", "s", "t", "u", "v", "w", "x", "y", "z" >>
UpperCaseLetters == << "A", "B", "C", "D", "E", "F", "G", "H", "I", "J", "K", "L", "M", "N", "O", "P", "Q", "R", "S", "T", "U", "V", "W", "X", "Y", "Z" >>

LetterCase(c, from, to) ==
    IF \E k \in DOMAIN from : from[k] = c
    THEN to[CHOOSE k \in DOMAIN from : from[k] = c] ELSE c

toLowerCase(arg) == [n \in DOMAIN arg |-> LetterCase(arg[n], UpperCaseLetters, LowerCaseLetters)]
toUpperCase(arg) == [n \in DOMAIN arg |-> LetterCase(arg[n], LowerCaseLetters, UpperCaseLetters)]

\* The cases of the switch of processArg.
SWITCHES ==
    << [ option |-> "verifySchema", short |-> "v",
         update |-> << "-", "-", "v", "e", "r", "i", "f", "y", "-", "s", "c", "h", "e", "m", "a" >>,
         skip |-> << "-", "-", "s", "k", "i", "p", "-", "s", "c", "h", "e", "m", "a", "-", "v", "e", "r", "i", "f", "i", "c", "a", "t", "i", "o", "n" >> ],
       [ option |-> "updatePackageExports", short |-> "e",
         update |-> << "-", "-", "u", "p", "d", "a", "t", "e", "-", "p", "a", "c", "k", "a", "g", "e", "-", "e", "x", "p", "o", "r", "t", "s" >>,
         skip |-> << "-", "-", "s", "k", "i", "p", "-", "p", "a", "c", "k", "a", "g", "e", "-", "e", "x", "p", "o", "r", "t", "s" >> ],
       [ option |-> "updateIssueTemplates", short |-> "i",
         update |-> << "-", "-", "u", "p", "d", "a", "t", "e", "-", "i", "s", "s", "u", "e", "-", "t", "e", "m", "p", "l", "a", "t", "e", "s" >>,
         skip |-> << "-", "-", "s", "k", "i", "p", "-", "i", "s", "s", "u", "e", "-", "t", "e", "m", "p", "l", "a", "t", "e", "s" >> ],
       [ option |-> "updateReadmeFiles", short |-> "r",
         update |-> << "-", "-", "u", "p", "d", "a", "t", "e", "-", "r", "e", "a", "d", "m", "e", "-", "f", "i", "l", "e", "s" >>,
         skip |-> << "-", "-", "s", "k", "i", "p", "-", "r", "e", "a", "d", "m", "e", "-", "f", "i", "l", "e", "s" >> ],
       [ option |-> "updateDependencyImports", short |-> "d",
         update |-> << "-", "-", "u", "p", "d", "a", "t", "e", "-", "d", "e", "p", "e", "n", "d", "e", "n", "c", "y", "-", "i", "m", "p", "o", "r", "t", "s" >>,
         skip |-> << "-", "-", "s", "k", "i", "p", "-", "d", "e", "p", "e", "n", "d", "e", "n", "c", "y", "-", "i", "m", "p", "o", "r", "t", "s" >> ] >>

DRY_RUN == << "-", "-", "d", "r", "y", "-", "r", "u", "n" >>

\* /(?:\-[a-z])|(?:\-{2}skip-)/.test(arg): a hyphen followed by a lower-case
\* letter anywhere in the argument, or `--skip-` anywhere in it.
isSkipArg(arg) ==
    \/ \E n \in 1..(Len(arg) - 1) : arg[n] = "-" /\ arg[n + 1] \in Range(LowerCaseLetters)
    \/ \E n \in 1..(Len(arg) - 6) :
          SubSeq(arg, n, n + 6) = << "-", "-", "s", "k", "i", "p", "-" >>

AllActions(value) ==
    [ verifySchema |-> value, updatePackageExports |-> value,
      updateIssueTemplates |-> value, updateReadmeFiles |-> value,
      updateDependencyImports |-> value ]

\* The body of the switch: the options after the case of `arg`, and whether
\* a case other than the default was taken.
SwitchOn(opts, arg) ==
    LET lcArg == toLowerCase(arg)
        cases == { k \in DOMAIN SWITCHES :
                      lcArg \in { << "-", SWITCHES[k].short >>, SWITCHES[k].update,
                                  SWITCHES[k].skip } }
    IN  IF lcArg = DRY_RUN
        THEN [options |-> [opts EXCEPT !.dryRun = TRUE], isValidArg |-> TRUE]
        ELSE IF cases = { } THEN [options |-> opts, isValidArg |-> FALSE]
        ELSE LET k == CHOOSE k \in cases : TRUE
             IN  [ options |-> [opts EXCEPT ![SWITCHES[k].option] =
                                    \/ arg = << "-", SWITCHES[k].short >>
                                    \/ lcArg = SWITCHES[k].update],
                   isValidArg |-> TRUE ]

\* processArg(arg): the options and processedDeterminantArg after the call.
processArg(state, arg) ==
    LET first == SwitchOn(state.options, arg)
    IN  IF first.isValidArg /\ ~ state.processedDeterminantArg
           /\ toLowerCase(arg) # DRY_RUN
        THEN [ processedDeterminantArg |-> TRUE,
               options |->
                   IF isSkipArg(arg)
                   THEN SwitchOn(AllActions(FALSE) @@ first.options, arg).options
                   ELSE first.options ]
        ELSE [state EXCEPT !.options = first.options]

\* programArgs.forEach(processArg)
RECURSIVE ProcessArgs(_, _)
ProcessArgs(state, args) ==
    IF args = << >> THEN state
    ELSE ProcessArgs(processArg(state, Head(args)), Tail(args))

ParseOptions(args) ==
    ProcessArgs([options |-> DefaultOptions, processedDeterminantArg |-> FALSE],
                args).options

\* The arguments of the command lines: every selector in each of its forms,
\* --dry-run and an unrecognized switch.
ProgramArgs ==
    UNION { { << "-", SWITCHES[k].short >>, << "-", toUpperCase(<< SWITCHES[k].short >>)[1] >>,
              SWITCHES[k].update, SWITCHES[k].skip, toUpperCase(SWITCHES[k].skip) } :
            k \in DOMAIN SWITCHES }
    \cup { DRY_RUN, << "-", "x" >> }

InitOptions ==
    /\ mode = "options"
    /\ schema = << >>
    /\ disk = << >>
    /\ disk0 = disk
    /\ options = DefaultOptions
    /\ pc = "options"
    /\ changes = << >>
    /\ \E args \in SeqsUpTo(ProgramArgs, MaxArgs) : result = [class |-> "argv", argv |-> args]
    /\ tempDirs = { }
    /\ reported = << >>
    /\ trace = << >>

\* const options: ScriptOptions = (() => { ... })();
ParseOptionsStage ==
    /\ mode = "options"
    /\ pc = "options"
    /\ options' = ParseOptions(result.argv)
    /\ pc' = "verifySchema"
    /\ UNCHANGED << mode, schema, disk, disk0, changes, result, tempDirs, reported, trace >>

NextOptions == ParseOptionsStage

SpecOptions == InitOptions /\ [][NextOptions]_vars

Parsed == mode = "options" /\ pc = "verifySchema"
OnlyDisabled(k) ==
    \A j \in DOMAIN SWITCHES : options[SWITCHES[j].option] = (j # k)

\* C23: a command line that consists of the skip selector of one action, in
\* its short upper-case form or in its long form, gives options in which that
\* action is disabled and each of the other four is enabled.
C23_SkipSelectorDisablesOneAction ==
    \A k \in DOMAIN SWITCHES :
        (/\ Parsed
         /\ result.argv \in { << << "-", toUpperCase(<< SWITCHES[k].short >>)[1] >> >>,
                              << SWITCHES[k].skip >> })
            => OnlyDisabled(k)

\* The same for the short upper-case form alone.
C23_ShortSkipSelector ==
    \A k \in DOMAIN SWITCHES :
        (Parsed /\ result.argv = << << "-", toUpperCase(<< SWITCHES[k].short >>)[1] >> >>)
            => OnlyDisabled(k)

(***************************************************************************)
(* The toolkit schema file and the package configuration file (utils.ts):  *)
(* fetchToolkitSchema, both versions of updateToolkitSchema and            *)
(* updatePackageConfig.  A JSON object is the sequence of its entries.     *)
(***************************************************************************)
PACKAGE_CONFIG_PATH == ROOT_PATH \o << "package.json" >>
TOOLKIT_SCHEMA_PATH == TOOLKIT_PATH \o << "schema.json" >>

\* `${JSON.stringify(data, null, 2)}\n`
stringifyJson(data) == [format |-> "json", indent |-> 2, newline |-> TRUE, data |-> data]

\* JSON.parse(readFile(filepath)): the object, or the error thrown for a
\* missing file or for a text that is not a complete JSON document.
readJsonFile(d, filepath) ==
    IF ~ IsFile(d, filepath) THEN [error |-> ReadError(filepath), data |-> << >>]
    ELSE IF "data" \notin DOMAIN d[filepath].content
    THEN [error |-> [class |-> "SyntaxError"], data |-> << >>]
    ELSE [error |-> NoError, data |-> d[filepath].content.data]

\* The keys of the universe that start with a `$` character.
DollarKeys == { << "$schema" >>, << "$id" >> }
SCHEMA_MARKER == Entry(<< "$schema" >>, [ref |-> "../toolkit-schema.json"])

\* The schema as the object the scripts hold: one key per namespace.
SchemaObject(s) == [n \in DOMAIN s |-> Entry(s[n].name, s[n])]

\* fetchToolkitSchema(): the parsed file without the keys that start with `$`.
fetchToolkitSchema(d) ==
    LET parsed == readJsonFile(d, TOOLKIT_SCHEMA_PATH)
        kept == SelectSeq(parsed.data, LAMBDA e : e.key \notin DollarKeys)
    IN  [error |-> parsed.error, schema |-> kept]

\* The text updateToolkitSchema writes: the current version assigns the
\* schema onto `{ '$schema': '../toolkit-schema.json' }`, the older version
\* (utils.ts, second half) serializes the schema as it is.
SchemaFileText(s, version) ==
    stringifyJson(IF version = "current"
                  THEN AssignAll(<< SCHEMA_MARKER >>, SchemaObject(s))
                  ELSE SchemaObject(s))

\* The graphs saved, the configurations written and the files found.
SavedNamespaceNames == { << "a" >>, << "c" >>, << "a$" >> }
SavedConfigs ==
    { << Entry(<< "name" >>, [text |-> "typescript-toolkit"]) >>,
      << Entry(<< "name" >>, [text |-> "typescript-toolkit"]),
         Entry(<< "version" >>, [text |-> "1.1.0"]) >> }
FoundFiles ==
    (TOOLKIT_PATH :> Dir)
    @@ (PACKAGE_CONFIG_PATH :>
            File(stringifyJson(<< Entry(<< "name" >>, [text |-> "typescript-toolkit"]),
                                  Entry(<< "version" >>, [text |-> "1.0.0"]) >>)))
    @@ (TOOLKIT_SCHEMA_PATH :>
            File(stringifyJson(
                << SCHEMA_MARKER, Entry(<< "$id" >>, [ref |-> "schema"]) >>
                \o SchemaObject(ImportSchema("function")))))

InitFiles ==
    /\ mode = "files"
    /\ IsSchemaOver(schema, SavedNamespaceNames, RunToolNames, RunDependencyStrings)
    /\ disk = FoundFiles
    /\ disk0 = disk
    /\ options \in { o \in AllOptions : o = [DefaultOptions EXCEPT !.dryRun = o.dryRun] }
    /\ pc = "call"
    /\ changes = << >>
    /\ result = NoError
    /\ tempDirs = { }
    /\ reported = << >>
    /\ trace = << >>

\* A call of writeFile from one of the update functions, with the outcome
\* the file system gives it.
WritingCall(name, filepath, text) ==
    \E outcome \in WriteOutcomes :
        LET r == writeFile(disk, tempDirs, reported, filepath, text, options.dryRun,
                           "add-namespace", outcome)
        IN  /\ disk' = r.disk
            /\ tempDirs' = r.tempDirs
            /\ reported' = r.reported
            /\ result' = r.error
            /\ changes' = << Entry(filepath, text) >>
            /\ trace' = Append(trace, StageCall(name))
            /\ pc' = IF r.error = NoError THEN "fetch" ELSE "failed"
            /\ UNCHANGED << mode, schema, disk0, options >>

\* updateToolkitSchema(schema, dryRun, tempDirPrefix), utils.ts lines 758-781.
UpdateToolkitSchemaCall ==
    /\ mode = "files"
    /\ pc = "call"
    /\ WritingCall("updateToolkitSchema", TOOLKIT_SCHEMA_PATH,
                   SchemaFileText(schema, "current"))

\* updateToolkitSchema(schema, dryRun, tempDirPrefix), utils.ts lines 1282-1301.
OlderUpdateToolkitSchemaCall ==
    /\ mode = "files"
    /\ pc = "call"
    /\ WritingCall("updateToolkitSchema (older)", TOOLKIT_SCHEMA_PATH,
                   SchemaFileText(schema, "older"))

\* updatePackageConfig(config, dryRun, tempDirPrefix): the file written is
\* TOOLKIT_SCHEMA_PATH.
UpdatePackageConfigCall ==
    /\ mode = "files"
    /\ pc = "call"
    /\ \E config \in SavedConfigs :
          WritingCall("updatePackageConfig", TOOLKIT_SCHEMA_PATH, stringifyJson(config))

FetchToolkitSchemaCall ==
    /\ mode = "files"
    /\ pc \in { "call", "fetch" }
    /\ LET r == fetchToolkitSchema(disk)
       IN  /\ result' = [class |-> "fetched", error |-> r.error, schema |-> r.schema]
           /\ pc' = "done"
    /\ trace' = Append(trace, StageCall("fetchToolkitSchema"))
    /\ UNCHANGED << mode, schema, disk, disk0, options, changes, tempDirs, reported >>

NextFiles ==
    \/ UpdateToolkitSchemaCall
    \/ OlderUpdateToolkitSchemaCall
    \/ UpdatePackageConfigCall
    \/ FetchToolkitSchemaCall

SpecFiles == InitFiles /\ [][NextFiles]_vars

Saved == mode = "files" /\ ~ options.dryRun /\ pc \in { "fetch", "done" }
           /\ (\E n \in DOMAIN trace : trace[n].call \in { "updateToolkitSchema",
                                                          "updateToolkitSchema (older)" })
Fetched == mode = "files" /\ pc = "done" /\ result.error = NoError

\* C24: fetchToolkitSchema returns a graph without a key that starts with
\* `$`; updateToolkitSchema writes the graph with the `$schema` marker key;
\* saving a graph without such keys and loading it gives the same namespaces
\* in the same order with the same contents.
C24_SaveThenLoad ==
    /\ Fetched => \A n \in DOMAIN result.schema : result.schema[n].key \notin DollarKeys
    /\ Saved => SCHEMA_MARKER \in Range(disk[TOOLKIT_SCHEMA_PATH].content.data)
    /\ (Saved /\ Fetched) => result.schema = SchemaObject(schema)

\* The same without the marker key.
C24_RoundTrip ==
    /\ Fetched => \A n \in DOMAIN result.schema : result.schema[n].key \notin DollarKeys
    /\ (Saved /\ Fetched) => result.schema = SchemaObject(schema)

\* C25: updatePackageConfig(config) leaves package.json holding the
\* serialized config and leaves the toolkit schema file unchanged.
C25_PackageConfigWritten ==
    (/\ mode = "files" /\ ~ options.dryRun /\ pc = "fetch"
     /\ Called(StageCall("updatePackageConfig")))
        => /\ disk[PACKAGE_CONFIG_PATH] = File(changes[1].value)
           /\ SameAsIn(disk, disk0, TOOLKIT_SCHEMA_PATH)

(***************************************************************************)
(* Claims about the order of the stages of a run.                          *)
(***************************************************************************)
StageOrder ==
    << "verifySchema", "updatePackageExports", "updateIssueTemplates",
       "updateReadmeFiles", "updateDependencyImports" >>
Rank(stage) == CHOOSE n \in DOMAIN StageOrder : StageOrder[n] = stage
StagePositions == { n \in DOMAIN trace : trace[n].call \in Range(StageOrder) }
CommitPositions == Calls(StageCall("commitChanges"))

\* C26: the enabled stages execute in the order verifySchema,
\* updatePackageExports, updateIssueTemplates, updateReadmeFiles,
\* updateDependencyImports, whichever of them are disabled; commitChanges is
\* invoked at most once, after every enabled stage has returned and only
\* with a ledger that is not empty.
C26_FixedStageOrder ==
    mode = "run" =>
        /\ \A m, n \in StagePositions :
              m < n => Rank(trace[m].call) < Rank(trace[n].call)
        /\ \A n \in StagePositions : options[trace[n].call]
        /\ pc \in { "commit", "done" } =>
              \A k \in DOMAIN StageOrder :
                  options[StageOrder[k]] => Called(StageCall(StageOrder[k]))
        /\ Cardinality(CommitPositions) <= 1
        /\ \A c \in CommitPositions :
              /\ \A k \in DOMAIN StageOrder :
                    options[StageOrder[k]] =>
                        \E n \in StagePositions :
                            n < c /\ trace[n].call = StageOrder[k]
              /\ \A n \in 1..(c - 1) : trace[n].call # "throw"
              /\ \E n \in 1..(c - 1) : trace[n].call = "recordChanges"

\* A run with updatePackageExports and updateReadmeFiles enabled and
\* updateIssueTemplates disabled has committed.
C26_Witness ==
    /\ mode = "run" /\ pc = "done"
    /\ options.updatePackageExports /\ ~ options.updateIssueTemplates
    /\ options.updateReadmeFiles
    /\ CommitPositions # { }
    /\ \E m, n \in StagePositions :
          /\ m < n
          /\ trace[m].call = "updatePackageExports"
          /\ trace[n].call = "updateReadmeFiles"

AllEnabled ==
    \A k \in DOMAIN StageOrder : options[StageOrder[k]]

\* C27: in a run with all actions enabled whose schema passes verifySchema,
\* no destination path is recorded twice and recordChanges raises no
\* conflict error.
C27_NoConflictAfterVerification ==
    (mode = "run" /\ AllEnabled)
        => /\ ~ Conflicted
           /\ \A m, n \in DOMAIN changes : changes[m].key = changes[n].key => m = n

(***************************************************************************)
(* The four generating actions and the commit over a tree in which the     *)
(* tool a/b is both rewritten (it has a /src file of its own) and imported *)
(* from (the source file of a/m names its export x): the generated         *)
(* a/b/ts/index.ts on disk and the source a/b/ts/src/index.ts may declare  *)
(* x differently.                                                          *)
(***************************************************************************)
PendingTools ==
    << [ name |-> << "b" >>,
         exports |-> << [name |-> << "x" >>, type |-> "function"] >>,
         dependencies |-> << << "a", "m" >> >> ],
       [ name |-> << "m" >>,
         exports |-> << >>,
         dependencies |-> << << "a", "b" >> >> ] >>

PendingSchemas ==
    { << [name |-> << "a" >>, tools |-> << PendingTools[1], PendingTools[2] >>] >>,
      << [name |-> << "a" >>, tools |-> << PendingTools[2], PendingTools[1] >>] >> }

DeclaresX(body) ==
    [h \in { "x" } |->
        IF body = << >> THEN << >>
        ELSE << DeclarationOf("function", "ts", "canonical", body[1]) >>]

PendingEntries(s, srcBody, destBody, directives) ==
    LET b == TOOLKIT_PATH \o << "a", "b", "ts" >>
        m == TOOLKIT_PATH \o << "a", "m", "ts" >>
    IN  CompleteEntries(s, "absent")
        \o << [key |-> b, value |-> Dir],
               [key |-> b \o << "index.ts" >>,
                value |-> TextFile(b \o << "index.ts" >>, DeclaresX(<< destBody >>), << >>)],
               [key |-> b \o << "src" >>, value |-> Dir],
               [key |-> b \o << "src", "index.ts" >>,
                value |-> TextFile(b \o << "src", "index.ts" >>, DeclaresX(srcBody), << >>)],
               [key |-> m, value |-> Dir],
               [key |-> m \o << "src" >>, value |-> Dir],
               [key |-> m \o << "src", "index.ts" >>,
                value |-> TextFile(m \o << "src", "index.ts" >>, << >>, directives)] >>

PendingDisks(s) ==
    { AsDisk(PendingEntries(s, srcBody, destBody, directives)) :
        srcBody \in { << >>, << PlainBody >>, << DirectiveBody >> },
        destBody \in { PlainBody, DirectiveBody },
        directives \in SeqsUpTo(ImportDirectives, 1) }

InitPending ==
    /\ mode = "run"
    /\ schema \in PendingSchemas
    /\ disk \in PendingDisks(schema)
    /\ disk0 = disk
    /\ options \in { o \in AllOptions : ~ o.verifySchema }
    /\ pc = "updatePackageExports"
    /\ changes = << >>
    /\ result = NoError
    /\ tempDirs = { }
    /\ reported = << >>
    /\ trace = << >>

NextPending ==
    \/ UpdatePackageExportsStage
    \/ UpdateIssueTemplatesStage
    \/ UpdateReadmeFilesStage
    \/ UpdateDependencyImportsStage
    \/ CommitStage

SpecPending == InitPending /\ [][NextPending]_vars

\* What each generating action records when it runs alone, on an empty
\* ledger, over the schema and the tree of the start of the run.
RecordedAlone ==
    updatePackageExports(schema, disk0, << >>, << >>).changes
    \o updateIssueTemplates(schema, disk0, << >>, << >>).changes
    \o updateReadmeFiles(schema, disk0, << >>, << >>).changes
    \o [k \in DOMAIN ImportOperations(schema, disk0) |->
           Entry(ImportOperations(schema, disk0)[k].dest,
                 ImportOperations(schema, disk0)[k].content)]

PendingSource == TOOLKIT_PATH \o << "a", "b", "ts", "index.ts" >>
PendingImporter == TOOLKIT_PATH \o << "a", "m", "ts", "index.ts" >>

\* C28: every entry of the ledger holds, for its path, the content the
\* recording action derives from the schema and the files on disk at the
\* start of the run alone, whichever actions are enabled and whatever the
\* ledger already holds; the files stay as they were until the commit.
C28_ContentFromSchemaAndDisk ==
    LET alone == RecordedAlone
    IN  /\ \A n \in DOMAIN changes :
              \E k \in DOMAIN alone :
                  /\ alone[k].key = changes[n].key
                  /\ alone[k].value = changes[n].value
        /\ ~ Called(StageCall("commitChanges")) => disk = disk0

\* The rewritten a/b/ts/index.ts is pending in the ledger, it no longer
\* declares x as the file on disk does, and a/m/ts/index.ts was recorded
\* after it with x extracted from that file.
C28_Witness ==
    \E n, k \in DOMAIN changes :
        /\ n < k
        /\ changes[n].key = PendingSource
        /\ changes[n].value.sections # disk0[PendingSource].content.sections
        /\ changes[k].key = PendingImporter
        /\ Len(changes[k].value.spliced) = 1
        /\ changes[k].value.spliced[1].source = PendingSource
        /\ options.updateReadmeFiles
        /\ pc = "commit"

(***************************************************************************)
(* writeFile and the exit handler of utils.ts on their own: a process      *)
(* writes up to MaxWrites files, under either temporary directory prefix,  *)
(* and exits, at the latest when a write throws.                           *)
(***************************************************************************)
MaxWrites == 2

TempDirPrefixes == { TEMP_PREFIX, "add-namespace" }
WriteTargets == { TOOLKIT_SCHEMA_PATH, PACKAGE_JSON_PATH }
WrittenText == stringifyJson(<< >>)

InitWrite ==
    /\ mode = "write"
    /\ schema = << >>
    /\ disk = AsDisk(<< [key |-> ROOT_PATH, value |-> Dir],
                        [key |-> << "$TEMP" >>, value |-> Dir] >>)
    /\ disk0 = disk
    /\ options = DefaultOptions
    /\ pc = "writing"
    /\ changes = << >>
    /\ result = NoError
    /\ tempDirs = { }
    /\ reported = << >>
    /\ trace = << >>

\* One call of writeFile; an error it throws is not caught and ends the
\* process.
WriteFileCall ==
    /\ mode = "write"
    /\ pc = "writing"
    /\ Len(trace) < MaxWrites
    /\ \E filepath \in WriteTargets, dryRun \in BOOLEAN, prefix \in TempDirPrefixes,
          outcome \in WriteOutcomes :
          LET r == writeFile(disk, tempDirs, reported, filepath, WrittenText, dryRun,
                             prefix, outcome)
          IN  /\ disk' = r.disk
              /\ tempDirs' = r.tempDirs
              /\ reported' = r.reported
              /\ result' = [class |-> "written", file |-> filepath, dryRun |-> dryRun,
                            prefix |-> prefix, error |-> r.error]
              /\ trace' = Append(trace, [call |-> "writeFile", file |-> filepath])
              /\ pc' = IF r.error = NoError THEN "writing" ELSE "throwing"
    /\ UNCHANGED << mode, schema, disk0, options, changes >>

\* rmdirSync(path): removes an empty directory and throws on one that still
\* holds an entry.
IsEmptyDir(d, path) ==
    /\ IsDir(d, path)
    /\ \A q \in DOMAIN d : IsPrefix(path, q) => q = path

\* process.on('exit'): for (let prefix in tempDirs) try { rmdirSync(...) }
\* catch (error) { console.error(...) }
ExitHandler ==
    /\ mode = "write"
    /\ pc \in { "writing", "throwing" }
    /\ disk' = [q \in { q \in DOMAIN disk :
                        \A prefix \in tempDirs :
                            q = TempDirOf(prefix) => ~ IsEmptyDir(disk, q) } |-> disk[q]]
    /\ pc' = "exited"
    /\ UNCHANGED << mode, schema, disk0, options, changes, result, tempDirs, reported,
                    trace >>

NextWrite == WriteFileCall \/ ExitHandler

SpecWrite == InitWrite /\ [][NextWrite]_vars

\* C29: a prefix has one temporary directory, which later writes reuse;
\* after a writeFile that returned without dryRun the temporary file is
\* gone; and once the process has exited no temporary directory it created
\* is left, also when a writeFile has thrown.
C29_TemporaryFilesCleanedUp ==
    mode = "write" =>
        /\ \A prefix \in tempDirs : pc # "exited" => IsDir(disk, TempDirOf(prefix))
        /\ (result.class = "written" /\ result.error = NoError /\ ~ result.dryRun)
              => ~ existsSync(disk, TempDirOf(result.prefix) \o << Basename(result.file) >>)
        /\ pc = "exited" =>
              \A prefix \in tempDirs : ~ existsSync(disk, TempDirOf(prefix))

\* What holds: the temporary directories are removed at exit when no
\* writeFile has thrown after creating its temporary file.
C29_RemovedWhenNoWriteFailed ==
    (mode = "write" /\ pc = "exited" /\ result.class = "written"
                    /\ result.error = NoError)
        => \A prefix \in tempDirs : ~ existsSync(disk, TempDirOf(prefix))

\* The scanned directories: <tool>/<dialect>/src of every tool of the schema.
SrcPaths ==
    UNION { { ToolDir(schema, i, j) \o << ScriptTypes[t], "src" >> :
                j \in DOMAIN schema[i].tools, t \in DOMAIN ScriptTypes } :
            i \in DOMAIN schema }
UnderSrc(path) == \E src \in SrcPaths : IsPrefix(src, path)

\* The directories of the tools that declare no dependency.
IndependentToolDirs ==
    UNION { { ToolDir(schema, i, j) :
                j \in { j \in DOMAIN schema[i].tools :
                           schema[i].tools[j].dependencies = << >> } } :
            i \in DOMAIN schema }

\* C30: updateDependencyImports reads and records nothing for a tool whose
\* dependencies list is empty; every file it reads lies in a /src directory
\* and is recorded under the same name one level up; no path under a /src
\* directory is in the ledger, and the run leaves every /src entry as it was.
C30_SrcNeverRecordedOrWritten ==
    LET ops == ImportOperations(schema, disk0)
    IN  /\ \A k \in DOMAIN ops :
              /\ UnderSrc(ops[k].read)
              /\ ~ UnderSrc(ops[k].dest)
              /\ ops[k].dest = SubSeq(ops[k].read, 1, Len(ops[k].read) - 2)
                                  \o << Basename(ops[k].read) >>
              /\ \A dir \in IndependentToolDirs :
                    ~ IsPrefix(dir, ops[k].read) /\ ~ IsPrefix(dir, ops[k].dest)
        /\ \A n \in DOMAIN changes :
              /\ ~ UnderSrc(changes[n].key)
              /\ \A dir \in IndependentToolDirs : ~ IsPrefix(dir, changes[n].key)
        /\ \A n \in DOMAIN trace :
              trace[n].call = "recordChanges" => ~ UnderSrc(trace[n].file)
        /\ \A path \in DOMAIN disk \cup DOMAIN disk0 :
              UnderSrc(path) =>
                  path \in DOMAIN disk /\ path \in DOMAIN disk0 /\ disk[path] = disk0[path]

\* The run has rewritten a/m/ts/index.ts from a/m/ts/src/index.ts, while the
\* source file of a/b, a tool without dependencies, is on disk as well.
C30_Witness ==
    /\ ImportsDone
    /\ pc = "done"
    /\ ~ options.dryRun
    /\ Called(RecordCall(ImportDest("index.ts")))
    /\ IsFile(disk0, TOOLKIT_PATH \o << "a", "b", "ts", "src", "index.ts" >>)
    /\ IsFile(disk, ImportDest("index.ts"))
    /\ ImportDest("index.ts") \notin DOMAIN disk0
    /\ disk[ImportSrc \o << "index.ts" >>] = disk0[ImportSrc \o << "index.ts" >>]

====
